---- MODULE Spec2Model ----
(***************************************************************************)
(* A model of the reMarkable Calibre device plugin: the device's stateful  *)
(* web interface (GET /documents/{id}, POST /upload), the document-tree    *)
(* crawler, the tiered Book equality and the book-list merge, device       *)
(* detection, and the convert-then-upload pipeline of upload_books.        *)
(*                                                                         *)
(* Strings are the program's strings.  None is the record [none |-> TRUE]. *)
(* Python objects that are compared by identity carry an `oid` field.      *)
(***************************************************************************)
EXTENDS Integers, Sequences, FiniteSets, TLC

VARIABLES
    (* the tablet: the web server's state *)
    curDir,         \* server-side "current directory": folder of the last listing served
    httpLog,        \* every HTTP request the plugin issued, in order
    (* the plugin's module and instance state *)
    _device,        \* module global _device: None or a DeviceInfo
    _last_detection_check,  \* instance attribute, time of the last HTTP poll
    now,            \* time.monotonic(), in seconds
    reachable,      \* whether the tablet answers on the USB network link right now
    lastCall,       \* the last host call and what it returned or raised
    calls,          \* number of host calls made so far
    (* the book lists *)
    booklist,       \* the host's main-memory book list (a DeviceBookList)
    listing,        \* the tablet's answer to GET /documents/{id}, per id
    nextOid,        \* next fresh Python object identity
    progressLog,    \* fractions passed to report_progress by the call in progress, x 6000
    (* one upload_books call *)
    pc,             \* position of the upload_books call
    files_original, \* the files the host hands to upload_books
    inflight,       \* items whose upload POST has been sent and not yet answered
    cfg,            \* the PluginSettings read by the call
    upload_items,   \* the call's upload_items list
    pool,           \* the ThreadPoolExecutor: max_workers
    futures,        \* per item: the state of its conversion future
    folder_id,      \* the resolved target folder id
    upIdx,          \* loop index i of the upload loop
    tempFiles,      \* converted temporary PDFs that exist on disk (by item index)
    unlinks,        \* per item: how many times its converted file was deleted
    errorLog,       \* LOGGER.error / LOGGER.warning records of the call
    raised          \* the exception the call raised, or None

serverVars == <<curDir, httpLog>>
hostVars   == <<_device, _last_detection_check, now, reachable>>
bookVars   == <<booklist, listing, nextOid>>
uploadVars == <<pc, files_original, inflight, cfg, upload_items, pool, futures, folder_id,
                upIdx, tempFiles, unlinks, errorLog, raised>>
vars == <<curDir, httpLog, _device, _last_detection_check, now, reachable, lastCall, calls,
          booklist, listing, nextOid, progressLog,
          pc, files_original, inflight, cfg, upload_items, pool, futures, folder_id, upIdx,
          tempFiles, unlinks, errorLog, raised>>

None == [none |-> TRUE]

NoCall == [op |-> "none"]

-----------------------------------------------------------------------------
(* Bounds of the model *)

MaxItems == 3       \* files in one upload_books batch
MaxSyncs == 2       \* sync_booklists calls in one behaviour
MaxLocal == 2       \* books in the host's list before the first sync
MaxTime == 11       \* seconds of monotonic clock that are explored
MaxCalls == 3       \* host calls of the device-lifecycle specification

-----------------------------------------------------------------------------
(* Small helpers over sequences *)

Range(s) == { s[i] : i \in 1..Len(s) }

Last(s) == s[Len(s)]

Min2(a, b) == IF a < b THEN a ELSE b

Max2(a, b) == IF a > b THEN a ELSE b

RECURSIVE Concat(_)
Concat(ss) == IF ss = << >> THEN << >> ELSE Head(ss) \o Concat(Tail(ss))

-----------------------------------------------------------------------------
(* rm_web_interface.py: the device document model *)

COLLECTION == "CollectionType"

DOCUMENT == "DocumentType"

(* A raw JSON entry of a listing.  hasID = FALSE models a dict without the *)
(* "ID" key.                                                               *)
Raw(id, parent, name, type) ==
    [hasID |-> TRUE, ID |-> id, Parent |-> parent, VissibleName |-> name, Type |-> type]

RawNoID(parent, name, type) ==
    [hasID |-> FALSE, ID |-> "", Parent |-> parent, VissibleName |-> name, Type |-> type]

(* DeviceEntry.from_json: raw["ID"] raises KeyError when the key is missing *)
from_json_ok(raw) == raw.hasID

from_json(raw) ==
    [entry_id |-> raw.ID, parent_id |-> raw.Parent, name |-> raw.VissibleName,
     entry_type |-> raw.Type]

(* a test that takes every entry for a folder *)
is_folder_always(entry) == TRUE

is_folder(entry) == entry.entry_type = COLLECTION

(* Python's order on the strings used as parent ids: their position here.  *)
IdOrder == <<"", "d0", "f1", "f2", "x", "y">>

StrRank(s) == CHOOSE i \in 1..Len(IdOrder) : IdOrder[i] = s

(* entries.sort(key=lambda e: e.parent_id): a stable sort *)
RECURSIVE InsertByParent(_, _)
InsertByParent(sorted, e) ==
    IF sorted = << >> THEN <<e>>
    ELSE IF StrRank(Last(sorted).parent_id) <= StrRank(e.parent_id)
         THEN Append(sorted, e)
         ELSE Append(InsertByParent(SubSeq(sorted, 1, Len(sorted) - 1), e), Last(sorted))

RECURSIVE SortByParent(_)
SortByParent(entries) ==
    IF entries = << >> THEN << >>
    ELSE InsertByParent(SortByParent(SubSeq(entries, 1, Len(entries) - 1)), Last(entries))

-----------------------------------------------------------------------------
(* The tablet's listings.  A listing maps a folder id ("" is the root) to  *)
(* the raw entries GET /documents/{id} returns; an id outside its domain   *)
(* is answered with an HTTP error.                                         *)

DevEmpty == ("" :> << >>)

DevFlat == ("" :> <<Raw("x", "", "a", DOCUMENT), Raw("y", "", "b", DOCUMENT)>>)

DevDup == ("" :> <<Raw("x", "", "a", DOCUMENT), Raw("y", "", "a", DOCUMENT)>>)

DevFolder ==
    ("" :> <<Raw("f1", "", "Calibre", COLLECTION), Raw("x", "", "a", DOCUMENT)>>) @@
    ("f1" :> <<Raw("y", "f1", "a", DOCUMENT)>>)

DevTwoFolders ==
    ("" :> <<Raw("f1", "", "Calibre", COLLECTION), Raw("f2", "", "calibre", COLLECTION)>>) @@
    ("f1" :> <<Raw("x", "f1", "a", DOCUMENT)>>) @@
    ("f2" :> << >>)

(* an entry whose id and name are both empty strings *)
DevAnon == ("" :> <<Raw("", "", "", DOCUMENT), Raw("x", "", "a", DOCUMENT)>>)

(* a folder graph with a cycle: f1 lists f2 and f2 lists f1 again *)
DevCycle ==
    ("" :> <<Raw("f1", "", "loop", COLLECTION), Raw("x", "", "a", DOCUMENT)>>) @@
    ("f1" :> <<Raw("f2", "f1", "back", COLLECTION)>>) @@
    ("f2" :> <<Raw("f1", "f2", "loop", COLLECTION), Raw("y", "f2", "b", DOCUMENT)>>)

(* a folder that lists itself, next to a folder named like the target *)
DevSelfLoop ==
    ("" :> <<Raw("f1", "", "Calibre", COLLECTION)>>) @@
    ("f1" :> <<Raw("f1", "f1", "Calibre", COLLECTION), Raw("x", "f1", "a", DOCUMENT)>>)

(* a listing with an entry that has no "ID" key, inside a folder *)
DevMalformed ==
    ("" :> <<Raw("f1", "", "Calibre", COLLECTION), Raw("x", "", "a", DOCUMENT)>>) @@
    ("f1" :> <<RawNoID("f1", "b", DOCUMENT)>>)

(* a listing that names the same id twice *)
DevSameId == ("" :> <<Raw("x", "", "a", DOCUMENT), Raw("x", "", "b", DOCUMENT)>>)

(* The state a crawl threads through its recursion: the requests issued    *)
(* so far (with their outcome), _counter[0], the progress_cb calls, and    *)
(* the number of the request that meets a connection failure (0: none).    *)
(* `depths` keeps, per request, the recursion depth that issued it.        *)
CrawlStart(failAt) ==
    [reqs |-> << >>, depths |-> << >>, count |-> 0, progress |-> << >>, failAt |-> failAt]

(* fetch_documents(ip, path_id): one GET /documents/{path_id} *)
fetch_ok(dev, path_id, st) ==
    /\ Len(st.reqs) + 1 # st.failAt
    /\ path_id \in DOMAIN dev

fetch_documents(dev, path_id, st) ==
    [st EXCEPT !.reqs = Append(@, [op |-> "GET", id |-> path_id,
                                   ok |-> fetch_ok(dev, path_id, st)])]

(* build_file_tree: returns [ok, tree, st]; ok = FALSE is a raised         *)
(* exception.  A tree is a sequence of nodes [entry, subtree].             *)
(* a depth test that lets one level too many through *)
depth_reached_late(_depth, max_depth) == _depth > max_depth

(* build_file_tree: `if _depth >= max_depth` *)
depth_reached(_depth, max_depth) == _depth >= max_depth

RECURSIVE build_file_tree(_, _, _, _, _)
RECURSIVE build_nodes(_, _, _, _, _, _, _)
build_file_tree(dev, root_id, _depth, max_depth, st) ==
    IF depth_reached(_depth, max_depth) THEN [ok |-> TRUE, tree |-> << >>, st |-> st]
    ELSE LET st1 == [fetch_documents(dev, root_id, st) EXCEPT !.depths = Append(@, _depth)] IN
         IF ~fetch_ok(dev, root_id, st) THEN [ok |-> FALSE, tree |-> << >>, st |-> st1]
         ELSE LET raw_list == dev[root_id] IN
              IF \E i \in 1..Len(raw_list) : ~from_json_ok(raw_list[i])
              THEN [ok |-> FALSE, tree |-> << >>, st |-> st1]
              ELSE LET entries == SortByParent([i \in 1..Len(raw_list) |-> from_json(raw_list[i])])
                       cnt == st1.count + Len(entries)
                       st2 == [st1 EXCEPT !.count = cnt, !.progress = Append(@, cnt)]
                   IN  build_nodes(dev, entries, 1, _depth, max_depth, st2, << >>)

build_nodes(dev, entries, i, _depth, max_depth, st, tree) ==
    IF i > Len(entries) THEN [ok |-> TRUE, tree |-> tree, st |-> st]
    ELSE IF is_folder(entries[i])
         THEN LET sub == build_file_tree(dev, entries[i].entry_id, _depth + 1, max_depth, st) IN
              IF ~sub.ok THEN [ok |-> FALSE, tree |-> << >>, st |-> sub.st]
              ELSE build_nodes(dev, entries, i + 1, _depth, max_depth, sub.st,
                               Append(tree, [entry |-> entries[i], subtree |-> sub.tree]))
         ELSE build_nodes(dev, entries, i + 1, _depth, max_depth, st,
                          Append(tree, [entry |-> entries[i], subtree |-> << >>]))

(* FileTree.all_files: (path, entry) pairs of all non-folder entries *)
RECURSIVE all_files(_, _)
all_files(tree, prefix) ==
    Concat([i \in 1..Len(tree) |->
        IF is_folder(tree[i].entry)
        THEN all_files(tree[i].subtree, prefix \o tree[i].entry.name \o "/")
        ELSE <<[path |-> prefix \o tree[i].entry.name, entry |-> tree[i].entry]>>])

(* A dict as the sequence of its (key, value) pairs in insertion order *)
DictHas(m, k) == \E i \in 1..Len(m) : m[i].key = k

DictGet(m, k) == m[CHOOSE i \in 1..Len(m) : m[i].key = k].value

DictSet(m, k, v) ==
    IF DictHas(m, k)
    THEN [i \in 1..Len(m) |-> IF m[i].key = k THEN [key |-> k, value |-> v] ELSE m[i]]
    ELSE Append(m, [key |-> k, value |-> v])

RECURSIVE DictUpdate(_, _)
DictUpdate(m, other) ==
    IF other = << >> THEN m
    ELSE DictUpdate(DictSet(m, Head(other).key, Head(other).value), Tail(other))

(* FileTree.folder_id_map: {folder_path: entry_id} *)
RECURSIVE folder_id_map(_, _)
RECURSIVE folder_id_map_from(_, _, _, _)
folder_id_map(tree, prefix) == folder_id_map_from(tree, prefix, 1, << >>)

folder_id_map_from(tree, prefix, i, mapping) ==
    IF i > Len(tree) THEN mapping
    ELSE IF is_folder(tree[i].entry)
         THEN LET path == prefix \o tree[i].entry.name
                  m1 == DictSet(mapping, path, tree[i].entry.entry_id)
                  m2 == DictUpdate(m1, folder_id_map(tree[i].subtree, path \o "/"))
              IN  folder_id_map_from(tree, prefix, i + 1, m2)
         ELSE folder_id_map_from(tree, prefix, i + 1, mapping)

(* str.lower() on the strings of the model that contain capitals *)
Lower(s) ==
    IF s = "Calibre" THEN "calibre"
    ELSE IF s = "Missing" THEN "missing"
    ELSE IF s = "Calibre/a" THEN "calibre/a"
    ELSE IF s = ".EPUB" THEN ".epub"
    ELSE IF s = "Calibre/Calibre" THEN "calibre/calibre"
    ELSE IF s = "Calibre/Calibre/Calibre" THEN "calibre/calibre/calibre"
    ELSE s

(* a lookup that takes the first path equal to the name ignoring case *)
lookup_folder_ignoring_case(folder_map, folder_name) ==
    IF \E i \in 1..Len(folder_map) : Lower(folder_map[i].key) = Lower(folder_name)
    THEN folder_map[CHOOSE i \in 1..Len(folder_map) :
                        /\ Lower(folder_map[i].key) = Lower(folder_name)
                        /\ \A j \in 1..(i - 1) :
                              Lower(folder_map[j].key) # Lower(folder_name)].value
    ELSE ""

(* the lookup of find_folder_id in a crawled folder map: exact match       *)
(* first, then the first case-insensitive match, else ""                   *)
lookup_folder(folder_map, folder_name) ==
    IF DictHas(folder_map, folder_name) THEN DictGet(folder_map, folder_name)
    ELSE IF \E i \in 1..Len(folder_map) : Lower(folder_map[i].key) = Lower(folder_name)
    THEN folder_map[CHOOSE i \in 1..Len(folder_map) :
                        /\ Lower(folder_map[i].key) = Lower(folder_name)
                        /\ \A j \in 1..(i - 1) :
                              Lower(folder_map[j].key) # Lower(folder_name)].value
    ELSE ""

(* find_folder_id without its try/except: a failed crawl propagates *)
find_folder_id_unguarded(dev, folder_name, st) ==
    IF folder_name = "" THEN [id |-> "", raised |-> FALSE, folder_map |-> << >>, st |-> st]
    ELSE LET b == build_file_tree(dev, "", 0, 3, st) IN
         IF ~b.ok THEN [id |-> "", raised |-> TRUE, folder_map |-> << >>, st |-> b.st]
         ELSE LET folder_map == folder_id_map(b.tree, "") IN
              [id |-> lookup_folder(folder_map, folder_name), raised |-> FALSE,
               folder_map |-> folder_map, st |-> b.st]

(* find_folder_id: returns [id, raised, folder_map, st], where folder_map  *)
(* is the map of the crawled tree; every exception of the crawl is caught  *)
find_folder_id(dev, folder_name, st) ==
    IF folder_name = "" THEN [id |-> "", raised |-> FALSE, folder_map |-> << >>, st |-> st]
    ELSE LET b == build_file_tree(dev, "", 0, 3, st) IN
         IF ~b.ok THEN [id |-> "", raised |-> FALSE, folder_map |-> << >>, st |-> b.st]
         ELSE LET folder_map == folder_id_map(b.tree, "") IN
              [id |-> lookup_folder(folder_map, folder_name), raised |-> FALSE,
               folder_map |-> folder_map, st |-> b.st]

(* The server's current directory after a run of requests: the folder of   *)
(* the last listing it served.                                             *)
RECURSIVE DirAfter(_, _)
DirAfter(dir, reqs) ==
    IF reqs = << >> THEN dir
    ELSE DirAfter(IF Head(reqs).op = "GET" /\ Head(reqs).ok THEN Head(reqs).id ELSE dir,
                  Tail(reqs))

-----------------------------------------------------------------------------
(* rm_data.py: Book.  The fields that decide equality, plus the object's   *)
(* identity; title, authors, size, timestamp and tags are not modelled.    *)

Book(oid, uuid, rm_uuid, path) ==
    [oid |-> oid, uuid |-> uuid, rm_uuid |-> rm_uuid, path |-> path]

(* Variants of the tiers and of their combination that Book.__eq__ does    *)
(* not implement: the device-id tier yielding to a library id, a library   *)
(* id matching a Book that has none, the root path counting as a path, and *)
(* the first identifier both sides carry deciding alone.                   *)
TierRm_unless_library_id(a, b) ==
    /\ a.uuid = "" /\ b.uuid = ""
    /\ a.rm_uuid # "" /\ b.rm_uuid # "" /\ a.rm_uuid = b.rm_uuid

TierUuid_one_sided(a, b) == a.uuid # "" /\ (b.uuid = "" \/ a.uuid = b.uuid)

TierPath_with_root(a, b) == a.path # "" /\ b.path # "" /\ a.path = b.path

BookEq_first_shared_decides(a, b) ==
    IF a.rm_uuid # "" /\ b.rm_uuid # "" THEN a.rm_uuid = b.rm_uuid
    ELSE IF a.uuid # "" /\ b.uuid # "" THEN a.uuid = b.uuid
    ELSE /\ a.path # "" /\ b.path # "" /\ a.path # "/" /\ b.path # "/"
         /\ a.path = b.path

(* Book.__eq__: the three tiers, in order *)
TierRm(a, b) == a.rm_uuid # "" /\ b.rm_uuid # "" /\ a.rm_uuid = b.rm_uuid

TierUuid(a, b) == a.uuid # "" /\ b.uuid # "" /\ a.uuid = b.uuid

TierPath(a, b) == a.path # "" /\ b.path # "" /\ a.path # "/" /\ b.path # "/" /\ a.path = b.path

BookEq(a, b) ==
    IF TierRm(a, b) THEN TRUE
    ELSE IF TierUuid(a, b) THEN TRUE
    ELSE IF TierPath(a, b) THEN TRUE
    ELSE FALSE

(* `book in books` on a Python list: identity first, then __eq__ *)
BookIn(book, books) ==
    \E i \in 1..Len(books) : books[i].oid = book.oid \/ BookEq(books[i], book)

(* __init__.py: _books_from_tree; the new Book objects get fresh identities *)
_books_from_tree(tree, oid0) ==
    LET files == all_files(tree, "") IN
    [i \in 1..Len(files) |-> Book(oid0 + i, "", files[i].entry.entry_id, files[i].path)]

(* the merge loop with its last element skipped (an off-by-one) *)
RECURSIVE AppendMissingSkipLast(_, _, _)
AppendMissingSkipLast(target, source, i) ==
    IF i >= Len(source) THEN target
    ELSE AppendMissingSkipLast(IF BookIn(source[i], target) THEN target
                               ELSE Append(target, source[i]),
                               source, i + 1)

(* for book in source: if book not in target: target.append(book)          *)
(* (source is not the list being appended to)                              *)
RECURSIVE AppendMissing(_, _, _)
AppendMissing(target, source, i) ==
    IF i > Len(source) THEN target
    ELSE AppendMissing(IF BookIn(source[i], target) THEN target
                       ELSE Append(target, source[i]),
                       source, i + 1)

(* sync_booklists' scan progress: frac = 0.1 + min(count / 100.0, 1.0) * 0.6, x 6000 *)
ScanFrac(count) == 600 + Min2(count, 100) * 36

RECURSIVE ScanFracs(_)
ScanFracs(counts) ==
    IF counts = << >> THEN << >> ELSE <<ScanFrac(Head(counts))>> \o ScanFracs(Tail(counts))

(* a sync_booklists that rebuilds the host's list from the scan, dropping   *)
(* the books the tablet no longer lists                                    *)
sync_booklists_pruning(bl, dev, oid0, failAt) ==
    LET b == build_file_tree(dev, "", 0, 20, CrawlStart(failAt))
        scanned == IF b.ok THEN _books_from_tree(b.tree, oid0) ELSE << >>
        kept == SelectSeq(bl, LAMBDA book : BookIn(book, scanned))
        merged == AppendMissing(kept, scanned, 1)
    IN  [op |-> "sync_booklists", before |-> bl, scan_ok |-> b.ok, scanned |-> scanned,
         on_device |-> AppendMissing(scanned, bl, 1), result |-> merged, reqs |-> b.st.reqs,
         progress |-> <<60>> \o ScanFracs(b.st.progress)
                     \o (IF b.ok THEN <<4800>> ELSE << >>) \o <<5400, 6000>>]

(* a sync_booklists that scans once more after a failed scan *)
sync_booklists_rescanning(bl, dev, oid0, failAt) ==
    LET b == build_file_tree(dev, "", 0, 20, CrawlStart(failAt))
        again == build_file_tree(dev, "", 0, 20, CrawlStart(0))
        scanned == IF again.ok THEN _books_from_tree(again.tree, oid0) ELSE << >>
        on_device == AppendMissing(scanned, bl, 1)
        merged == AppendMissing(bl, on_device, 1)
    IN  [op |-> "sync_booklists", before |-> bl, scan_ok |-> b.ok, scanned |-> scanned,
         on_device |-> on_device, result |-> merged, reqs |-> b.st.reqs,
         progress |-> <<60>> \o ScanFracs(b.st.progress)
                     \o (IF b.ok THEN <<4800>> ELSE << >>) \o <<5400, 6000>>]

(* sync_booklists(booklists): the scan, then the two merge loops.          *)
(* Returns the call's observable outcome.                                  *)
sync_booklists(bl, dev, oid0, failAt) ==
    LET b == build_file_tree(dev, "", 0, 20, CrawlStart(failAt))
        scanned == IF b.ok THEN _books_from_tree(b.tree, oid0) ELSE << >>
        on_device == AppendMissing(scanned, bl, 1)
        merged == AppendMissing(bl, on_device, 1)
    IN  [op |-> "sync_booklists", before |-> bl, scan_ok |-> b.ok, scanned |-> scanned,
         on_device |-> on_device, result |-> merged, reqs |-> b.st.reqs,
         progress |-> <<60>> \o ScanFracs(b.st.progress)
                     \o (IF b.ok THEN <<4800>> ELSE << >>) \o <<5400, 6000>>]

(* a delete_books that drops the named books from the host's list and      *)
(* reports success                                                         *)
delete_books_local(bl, paths) ==
    [op |-> "delete_books", paths |-> paths, raised |-> "",
     booklist |-> SelectSeq(bl, LAMBDA b : b.path \notin Range(paths)), reqs |-> << >>]

(* delete_books(paths): raises UserFeedback; what it does to the host's    *)
(* book list and which requests it issues                                  *)
delete_books(bl, paths) ==
    [op |-> "delete_books", paths |-> paths, raised |-> "UserFeedback",
     booklist |-> bl, reqs |-> << >>]

-----------------------------------------------------------------------------
(* The book-list specification: sync_booklists and delete_books against a  *)
(* tablet, starting from a host list that may hold books the tablet no     *)
(* longer has.                                                             *)

SyncDevices == {DevEmpty, DevFlat, DevDup, DevFolder, DevAnon, DevMalformed}

(* Books the host may already hold: added by add_books_to_metadata (a     *)
(* library uuid and the visible name as path), or kept from an earlier     *)
(* scan (a device id), or with the default path.                           *)
LocalBooks(oid) ==
    { Book(oid, "u1", "", "a"), Book(oid, "", "x", "a"),
      Book(oid, "u2", "", "/"), Book(oid, "", "z", "gone") }

LocalLists ==
    UNION { { [i \in 1..n |-> f[i]] : f \in { g \in [1..n -> UNION { LocalBooks(k) : k \in 1..n }] :
                                               \A i \in 1..n : g[i].oid = i } }
            : n \in 0..MaxLocal }

DeletePaths == { <<"a">>, <<"gone", "b">> }

IdleUpload ==
    /\ pc = "idle" /\ files_original = << >> /\ inflight = {}
    /\ cfg = None /\ upload_items = << >> /\ pool = 0
    /\ futures = << >> /\ folder_id = "" /\ upIdx = 0 /\ tempFiles = {}
    /\ unlinks = << >> /\ errorLog = << >> /\ raised = None

InitSync ==
    /\ curDir = "" /\ httpLog = << >>
    /\ _device \in {None, [ip |-> "10.11.99.1", session_id |-> 1]}
    /\ _last_detection_check = 0 /\ now = 0 /\ reachable = TRUE
    /\ lastCall = NoCall /\ calls = 0
    /\ booklist \in LocalLists
    /\ listing \in SyncDevices
    /\ nextOid = MaxLocal + 1
    /\ progressLog = << >>
    /\ IdleUpload

SyncBooklists(failAt) ==
    /\ calls < MaxSyncs
    /\ LET r == sync_booklists(booklist, listing, nextOid, failAt) IN
       /\ booklist' = r.result
       /\ lastCall' = r
       /\ httpLog' = httpLog \o r.reqs
       /\ curDir' = DirAfter(curDir, r.reqs)
       /\ nextOid' = nextOid + Len(r.scanned)
       /\ progressLog' = r.progress
    /\ calls' = calls + 1
    /\ UNCHANGED <<hostVars, listing, uploadVars>>

DeleteBooks(paths) ==
    /\ LET r == delete_books(booklist, paths) IN
       /\ booklist' = r.booklist
       /\ httpLog' = httpLog \o r.reqs
       /\ curDir' = DirAfter(curDir, r.reqs)
       /\ lastCall' = [op |-> r.op, paths |-> r.paths, raised |-> r.raised]
    /\ UNCHANGED <<hostVars, calls, listing, nextOid, progressLog, uploadVars>>

NextSync ==
    \/ \E failAt \in 0..2 : SyncBooklists(failAt)
    \/ \E paths \in DeletePaths : DeleteBooks(paths)

SpecSync == InitSync /\ [][NextSync]_vars

-----------------------------------------------------------------------------
(* __init__.py: device lifecycle                                           *)

_DETECTION_INTERVAL == 5

SessionIds == {1, 2}

DeviceInfo(ip, session_id) == [ip |-> ip, session_id |-> session_id]

(* is_reachable(ip): one root listing with a short timeout; any failure    *)
(* becomes False.  Returns [value, reqs].                                  *)
(* What one GET /documents/ can meet: an answer, a refused connection, a   *)
(* timeout, a non-success status, a body that is not JSON.                 *)
FetchOutcomes == {"ok", "refused", "timeout", "http_error", "bad_json"}

(* the exception fetch_documents raises, by outcome *)
fetch_exception(outcome) ==
    CASE outcome = "ok" -> "none"
      [] outcome = "refused" -> "URLError"
      [] outcome = "timeout" -> "TimeoutError"
      [] outcome = "http_error" -> "HTTPError"
      [] outcome = "bad_json" -> "JSONDecodeError"

(* the exception classes that are subclasses of urllib.error.URLError *)
UrlErrors == {"URLError", "HTTPError"}

(* is_reachable catching only urllib's errors *)
is_reachable_catching_url_errors(outcome) ==
    [value |-> outcome = "ok",
     raised |-> fetch_exception(outcome) \notin (UrlErrors \cup {"none"}),
     reqs |-> <<[op |-> "GET", id |-> "", ok |-> outcome = "ok"]>>]

(* is_reachable: True when the request succeeds; `except Exception` turns  *)
(* every failure into False.  Returns [value, raised, reqs].               *)
is_reachable(outcome) ==
    [value |-> outcome = "ok", raised |-> FALSE,
     reqs |-> <<[op |-> "GET", id |-> "", ok |-> outcome = "ok"]>>]

(* a detection that draws a new session at every successful poll *)
detect_managed_devices_resetting(dev, last, t, force_refresh, up, sid) ==
    IF ~force_refresh /\ (t - last) < _DETECTION_INTERVAL
    THEN [device |-> dev, last |-> last, reqs |-> << >>, result |-> dev]
    ELSE LET r == is_reachable(IF up THEN "ok" ELSE "refused") IN
         IF r.value
         THEN [device |-> DeviceInfo("10.11.99.1", sid), last |-> t, reqs |-> r.reqs,
               result |-> DeviceInfo("10.11.99.1", sid)]
         ELSE [device |-> dev, last |-> t, reqs |-> r.reqs, result |-> None]

(* detect_managed_devices(devices_on_system, force_refresh).  `up` is      *)
(* whether the tablet answers, `sid` the session id random.randint draws.  *)
(* Returns the new _device and _last_detection_check, the requests issued  *)
(* and the value returned.  The except branch clears _device when          *)
(* is_reachable raises, which is_reachable never does.                     *)
detect_managed_devices(dev, last, t, force_refresh, up, sid) ==
    IF ~force_refresh /\ (t - last) < _DETECTION_INTERVAL
    THEN [device |-> dev, last |-> last, reqs |-> << >>, result |-> dev]
    ELSE LET r == is_reachable(IF up THEN "ok" ELSE "refused") IN
         IF r.raised THEN [device |-> None, last |-> t, reqs |-> r.reqs, result |-> None]
         ELSE IF r.value
         THEN LET d == IF dev = None THEN DeviceInfo("10.11.99.1", sid) ELSE dev IN
              [device |-> d, last |-> t, reqs |-> r.reqs, result |-> d]
         ELSE [device |-> dev, last |-> t, reqs |-> r.reqs, result |-> None]

(* is_usb_connected: (_device is not None, _device) *)
is_usb_connected(dev) == [connected |-> dev # None, device |-> dev]

(* get_device_uid *)
get_device_uid(dev) == IF dev # None THEN dev.session_id ELSE -1

-----------------------------------------------------------------------------
(* The device-lifecycle specification: the host polls for the tablet while *)
(* the clock advances and the tablet is plugged in and out.                *)

InitDevice ==
    /\ curDir = "" /\ httpLog = << >>
    /\ _device = None /\ _last_detection_check = 0
    /\ now \in {0, _DETECTION_INTERVAL}
    /\ reachable \in BOOLEAN
    /\ lastCall = NoCall /\ calls = 0
    /\ booklist = << >> /\ listing = DevEmpty /\ nextOid = 1 /\ progressLog = << >>
    /\ IdleUpload

DetectManagedDevices(force_refresh, sid) ==
    /\ calls < MaxCalls
    /\ LET r == detect_managed_devices(_device, _last_detection_check, now,
                                       force_refresh, reachable, sid) IN
       /\ _device' = r.device
       /\ _last_detection_check' = r.last
       /\ httpLog' = httpLog \o r.reqs
       /\ curDir' = DirAfter(curDir, r.reqs)
       /\ lastCall' = [op |-> "detect_managed_devices", polled |-> r.reqs # << >>,
                       result |-> r.result]
    /\ calls' = calls + 1
    /\ UNCHANGED <<now, reachable, bookVars, progressLog, uploadVars>>

IsUsbConnected ==
    /\ calls < MaxCalls
    /\ lastCall' = [op |-> "is_usb_connected", polled |-> FALSE,
                    result |-> is_usb_connected(_device).device,
                    connected |-> is_usb_connected(_device).connected]
    /\ calls' = calls + 1
    /\ UNCHANGED <<serverVars, hostVars, bookVars, progressLog, uploadVars>>

Eject ==
    /\ calls < MaxCalls
    /\ _device' = None
    /\ lastCall' = [op |-> "eject"]
    /\ calls' = calls + 1
    /\ UNCHANGED <<serverVars, _last_detection_check, now, reachable, bookVars,
                   progressLog, uploadVars>>

(* time passes *)
Tick(d) ==
    /\ now + d <= MaxTime
    /\ now' = now + d
    /\ UNCHANGED <<serverVars, _device, _last_detection_check, reachable, lastCall, calls,
                   bookVars, progressLog, uploadVars>>

(* the tablet is unplugged, or plugged in again *)
LinkChanges ==
    /\ reachable' = ~reachable
    /\ UNCHANGED <<serverVars, _device, _last_detection_check, now, lastCall, calls,
                   bookVars, progressLog, uploadVars>>

NextDevice ==
    \/ \E force_refresh \in BOOLEAN, sid \in SessionIds :
          DetectManagedDevices(force_refresh, sid)
    \/ IsUsbConnected
    \/ Eject
    \/ \E d \in {1, _DETECTION_INTERVAL} : Tick(d)
    \/ LinkChanges

SpecDevice == InitDevice /\ [][NextDevice]_vars

(* the most recent HTTP poll of the tablet failed *)
LastPollUnreachable == httpLog # << >> /\ ~Last(httpLog).ok

(* C7: after a detection poll finds the tablet unreachable, that call and  *)
(* every later detect_managed_devices / is_usb_connected call (throttled   *)
(* ones included) report no device, until a later poll finds it reachable. *)
C7_UnreachableReportedAbsent ==
    (LastPollUnreachable /\ lastCall.op \in {"detect_managed_devices", "is_usb_connected"})
        => lastCall.result = None

-----------------------------------------------------------------------------
(* __init__.py: upload_books.  A file name is [stem, ext], what            *)
(* os.path.splitext makes of it.                                           *)

Stems == <<"b1", "b2", "b3", "b4", "b5", "b6", "b7">>

TmpStems == <<"tmp1", "tmp2", "tmp3", "tmp4", "tmp5", "tmp6", "tmp7">>

File(stem, ext) == [stem |-> stem, ext |-> ext]

(* the path tempfile.mkstemp(suffix=".pdf") returns for item i *)
TmpPdf(i) == File(TmpStems[i], ".pdf")

(* needs_convert = preferred_format == "pdf" and the extension is .epub *)
needs_convert(settings, local_path) ==
    settings.preferred_format = "pdf" /\ local_path.ext = ".epub"

(* the upload_items list built from files_original and names *)
build_upload_items(settings, files) ==
    [i \in 1..Len(files) |->
        [index |-> i, local_path |-> files[i], upload_name |-> files[i],
         visible_name |-> files[i], needs_convert |-> needs_convert(settings, files[i]),
         converted_path |-> None, cleanup_path |-> None]]

items_to_convert(items) == { i \in 1..Len(items) : items[i].needs_convert }

(* one worker per book, whatever the CPU count *)
max_workers_per_book(cpu_count, k) == k

(* max_workers = min(max(os.cpu_count() or 2, 2), 4, len(items_to_convert)); *)
(* cpu_count = 0 stands for os.cpu_count() returning None                  *)
max_workers(cpu_count, k) ==
    Min2(Min2(Max2(IF cpu_count = 0 THEN 2 ELSE cpu_count, 2), 4), k)

(* the exceptions _convert_epub_to_pdf raises: RuntimeError carries the    *)
(* return code and the converter's stdout tail, TimeoutError a fixed text  *)
ConvRuntimeError(stdout_tail) == [type |-> "RuntimeError", stdout_tail |-> stdout_tail]

ConvTimeoutError == [type |-> "TimeoutError"]

(* what one run of ebook-convert can end in: exit code 0; a non-zero exit  *)
(* code with nothing on stdout, or with the input path on stdout; no exit  *)
(* before the timeout                                                      *)
ConvOutcomes == {"ok", "rc_quiet", "rc_path", "timeout"}

_convert_epub_to_pdf(epub_path, outcome) ==
    IF outcome = "ok" THEN None
    ELSE IF outcome = "rc_quiet" THEN ConvRuntimeError(File("", ""))
    ELSE IF outcome = "rc_path" THEN ConvRuntimeError(epub_path)
    ELSE ConvTimeoutError

UploadError == [type |-> "UploadError"]

(* a future of the pool *)
NoFuture == [state |-> "none", exc |-> None, collected |-> FALSE]

Running == { i \in 1..Len(futures) : futures[i].state = "running" }

Queued == { i \in 1..Len(futures) : futures[i].state = "queued" }

Uncollected == { i \in 1..Len(futures) : futures[i].state = "done" /\ ~futures[i].collected }

(* convert_done: the futures the main thread has taken from as_completed *)
ConvertDone == Cardinality({ i \in 1..Len(futures) : futures[i].collected })

(* the pre-upload navigation of upload_books: one listing of the folder    *)
(* when one was resolved                                                   *)
pre_navigate(fid, ok) ==
    IF fid # "" THEN <<[op |-> "GET", id |-> fid, ok |-> ok, by |-> "upload_books"]>>
    ELSE << >>

(* upload_file(ip, local_path, folder_id, display_name, navigate): the     *)
(* requests it issues; the POST lands in the server's current directory    *)
upload_file(item, fid, display_name, navigate, navOk, dir) ==
    LET nav == IF navigate
               THEN <<[op |-> "GET", id |-> fid, ok |-> navOk, by |-> "upload_file"]>>
               ELSE << >>
    IN  nav \o <<[op |-> "POST", item |-> item, name |-> display_name,
                  dir |-> DirAfter(dir, nav), by |-> "upload_file"]>>

(* upload_books calling upload_file with the default navigate=True *)
call_upload_file_navigating(item, fid, display_name, dir) ==
    upload_file(item, fid, display_name, TRUE, TRUE, dir)

(* upload_books' call: upload_file(..., navigate=False) *)
call_upload_file(item, fid, display_name, dir) ==
    upload_file(item, fid, display_name, FALSE, TRUE, dir)

(* the upload loop takes any item not yet uploaded *)
upload_turn_any(i, idx, sent) == i \in 1..Len(upload_items) /\ idx >= 1 /\ sent = {}

(* the upload loop: item i is uploaded when the loop index reaches it and  *)
(* the previous upload_file call has returned                              *)
upload_turn(i, idx, sent) == i = idx /\ sent = {}

(* a conversion phase that claims the whole progress span *)
ConvertFrac_whole_span(done, k) == 60 + (done * 5940) \div k

(* report_progress fractions, x 6000 *)
ConvertFrac(done, k) == 60 + (done * 2340) \div k

UploadBase(items) == IF items_to_convert(items) # {} THEN 2400 ELSE 60

UploadFrac(items, i) == UploadBase(items) + (i * (6000 - UploadBase(items))) \div Len(items)

(* _upload_progress(frac) of item i: _s + frac * (_e - _s), frac = num/den *)
_upload_progress(items, i, num, den) ==
    UploadFrac(items, i - 1)
        + (num * (UploadFrac(items, i) - UploadFrac(items, i - 1))) \div den

(* the fractions _ProgressBody reports while the body of item i is sent in *)
(* two reads                                                               *)
body_progress(items, i) == <<_upload_progress(items, i, 1, 2), _upload_progress(items, i, 2, 2)>>

-----------------------------------------------------------------------------
(* The upload specification: one upload_books call against a tablet.       *)

UploadDevices == {DevFlat, DevFolder, DevTwoFolders}

TargetFolders == {"", "Calibre", "Missing"}

CpuCounts == {0, 1, 3, 8}

FileLists ==
    UNION { [1..n -> { File(Stems[k], e) : k \in 1..n, e \in {".epub", ".pdf"} }]
            : n \in 0..MaxItems }

InitUpload ==
    /\ curDir = "" /\ httpLog = << >>
    /\ _device = DeviceInfo("10.11.99.1", 1) /\ _last_detection_check = 0
    /\ now = 0 /\ reachable = TRUE
    /\ lastCall = NoCall /\ calls = 0
    /\ booklist = << >> /\ listing \in UploadDevices /\ nextOid = 1 /\ progressLog = << >>
    /\ pc = "idle"
    /\ files_original \in { f \in FileLists : \A i \in 1..Len(f) : f[i].stem = Stems[i] }
    /\ cfg \in [target_folder : TargetFolders, preferred_format : {"epub", "pdf"}]
    /\ inflight = {} /\ upload_items = << >> /\ pool = 0
    /\ futures = << >> /\ folder_id = "" /\ upIdx = 0 /\ tempFiles = {}
    /\ unlinks = << >> /\ errorLog = << >> /\ raised = None

(* upload_books up to the submission of the conversions: the empty-batch   *)
(* return, the target-folder lookup, the upload_items list, the pool       *)
UploadBooksBegin(failAt, cpu_count) ==
    /\ pc = "idle"
    /\ lastCall' = [op |-> "upload_books",
                    cpu_count |-> IF items_to_convert(build_upload_items(cfg, files_original)) # {}
                                  THEN cpu_count ELSE 0]
    /\ IF files_original = << >>
       THEN /\ pc' = "returned"
            /\ UNCHANGED <<serverVars, upload_items, pool, futures, folder_id, unlinks,
                           errorLog, progressLog>>
       ELSE LET r == find_folder_id(listing, cfg.target_folder, CrawlStart(failAt))
                reqs == [i \in 1..Len(r.st.reqs) |->
                            [op |-> "GET", id |-> r.st.reqs[i].id, ok |-> r.st.reqs[i].ok,
                             by |-> "find_folder_id"]]
                items == build_upload_items(cfg, files_original)
                k == Cardinality(items_to_convert(items))
            IN  /\ folder_id' = r.id
                /\ httpLog' = httpLog \o reqs
                /\ curDir' = DirAfter(curDir, reqs)
                /\ errorLog' = IF cfg.target_folder # "" /\ r.id = ""
                               THEN Append(errorLog, [what |-> "folder not found",
                                                      name |-> cfg.target_folder])
                               ELSE errorLog
                /\ upload_items' = items
                /\ unlinks' = [i \in 1..Len(items) |-> 0]
                /\ futures' = [i \in 1..Len(items) |->
                                  IF items[i].needs_convert
                                  THEN [NoFuture EXCEPT !.state = "queued"] ELSE NoFuture]
                /\ pool' = IF k > 0 THEN max_workers(cpu_count, k) ELSE 0
                /\ progressLog' = IF k > 0 THEN <<60>> ELSE << >>
                /\ pc' = IF k > 0 THEN "convert" ELSE "navigate"
    /\ UNCHANGED <<hostVars, calls, bookVars, files_original, inflight, cfg, upIdx,
                   tempFiles, raised>>

(* a pool worker takes the oldest queued conversion: _convert_epub_to_pdf  *)
(* creates its output file and starts ebook-convert                        *)
WorkerStart(i) ==
    /\ pc \in {"convert", "aborting"}
    /\ i \in Queued /\ \A j \in Queued : i <= j
    /\ Cardinality(Running) < pool
    /\ futures' = [futures EXCEPT ![i].state = "running"]
    /\ tempFiles' = tempFiles \cup {i}
    /\ UNCHANGED <<serverVars, hostVars, lastCall, calls, bookVars, progressLog, pc,
                   files_original, inflight, cfg, upload_items, pool, folder_id, upIdx,
                   unlinks, errorLog, raised>>

(* ebook-convert ends: exit code 0, or a failure after which               *)
(* _convert_epub_to_pdf deletes its output file and raises                 *)
WorkerFinish(i, outcome) ==
    /\ pc \in {"convert", "aborting"}
    /\ i \in Running
    /\ futures' = [futures EXCEPT ![i].state = "done",
                                  ![i].exc = _convert_epub_to_pdf(upload_items[i].local_path,
                                                                  outcome)]
    /\ tempFiles' = IF outcome = "ok" THEN tempFiles ELSE tempFiles \ {i}
    /\ UNCHANGED <<serverVars, hostVars, lastCall, calls, bookVars, progressLog, pc,
                   files_original, inflight, cfg, upload_items, pool, folder_id, upIdx,
                   unlinks, errorLog, raised>>

(* an as_completed loop that ends at the first future it is handed *)
first_collected(i) == TRUE

(* the as_completed loop ends when future i was the last one outstanding *)
all_collected(i) == \A j \in items_to_convert(upload_items) \ {i} : futures[j].collected

(* a main thread that logs a failed conversion and goes on with the rest   *)
CollectSkippingFailed(i) ==
    /\ pc = "convert"
    /\ i \in Uncollected
    /\ futures' = [futures EXCEPT ![i].collected = TRUE]
    /\ IF futures[i].exc = None
       THEN /\ upload_items' = [upload_items EXCEPT
                                   ![i].converted_path = TmpPdf(i),
                                   ![i].cleanup_path = TmpPdf(i),
                                   ![i].local_path = TmpPdf(i),
                                   ![i].upload_name = File(upload_items[i].upload_name.stem, ".pdf")]
            /\ UNCHANGED errorLog
       ELSE /\ errorLog' = Append(errorLog, [what |-> "Conversion failed",
                                             name |-> upload_items[i].upload_name])
            /\ UNCHANGED upload_items
    /\ progressLog' = Append(progressLog,
                             ConvertFrac(ConvertDone + 1,
                                         Cardinality(items_to_convert(upload_items))))
    /\ pc' = IF all_collected(i) THEN "navigate" ELSE "convert"
    /\ UNCHANGED <<serverVars, hostVars, lastCall, calls, bookVars, files_original, inflight,
                   cfg, pool, folder_id, upIdx, tempFiles, unlinks, raised>>

(* the main thread takes a finished future from as_completed *)
Collect(i) ==
    /\ pc = "convert"
    /\ i \in Uncollected
    /\ futures' = [futures EXCEPT ![i].collected = TRUE]
    /\ IF futures[i].exc = None
       THEN /\ upload_items' = [upload_items EXCEPT
                                   ![i].converted_path = TmpPdf(i),
                                   ![i].cleanup_path = TmpPdf(i),
                                   ![i].local_path = TmpPdf(i),
                                   ![i].upload_name = File(upload_items[i].upload_name.stem, ".pdf")]
            /\ progressLog' = Append(progressLog,
                                     ConvertFrac(ConvertDone + 1,
                                                 Cardinality(items_to_convert(upload_items))))
            /\ pc' = IF all_collected(i) THEN "navigate" ELSE "convert"
            /\ UNCHANGED <<errorLog, raised>>
       ELSE /\ errorLog' = Append(errorLog, [what |-> "Conversion failed",
                                             name |-> upload_items[i].upload_name])
            /\ raised' = futures[i].exc
            /\ pc' = "aborting"
            /\ UNCHANGED <<upload_items, progressLog>>
    /\ UNCHANGED <<serverVars, hostVars, lastCall, calls, bookVars, files_original, inflight,
                   cfg, pool, folder_id, upIdx, tempFiles, unlinks>>

(* leaving the `with ThreadPoolExecutor` block on the exception: shutdown  *)
(* waits until every submitted conversion has run                          *)
AbortJoined ==
    /\ pc = "aborting"
    /\ Running = {} /\ Queued = {}
    /\ pc' = "raised"
    /\ UNCHANGED <<serverVars, hostVars, lastCall, calls, bookVars, progressLog,
                   files_original, inflight, cfg, upload_items, pool, futures, folder_id,
                   upIdx, tempFiles, unlinks, errorLog, raised>>

(* a pre-upload navigation whose failure ends the call *)
NavigateOrRaise(ok) ==
    /\ pc = "navigate"
    /\ LET reqs == pre_navigate(folder_id, ok) IN
       /\ httpLog' = httpLog \o reqs
       /\ curDir' = DirAfter(curDir, reqs)
       /\ errorLog' = errorLog
       /\ pc' = IF reqs # << >> /\ ~ok THEN "raised" ELSE "upload"
       /\ raised' = IF reqs # << >> /\ ~ok THEN [type |-> "URLError"] ELSE raised
    /\ upIdx' = 1
    /\ UNCHANGED <<hostVars, lastCall, calls, bookVars, progressLog, files_original, inflight,
                   cfg, upload_items, pool, futures, folder_id, tempFiles, unlinks>>

(* the navigation before the upload loop; its failure is only logged *)
Navigate(ok) ==
    /\ pc = "navigate"
    /\ LET reqs == pre_navigate(folder_id, ok) IN
       /\ httpLog' = httpLog \o reqs
       /\ curDir' = DirAfter(curDir, reqs)
       /\ errorLog' = IF reqs # << >> /\ ~ok
                      THEN Append(errorLog, [what |-> "navigation failed", name |-> folder_id])
                      ELSE errorLog
    /\ pc' = "upload"
    /\ upIdx' = 1
    /\ UNCHANGED <<hostVars, lastCall, calls, bookVars, progressLog, files_original, inflight,
                   cfg, upload_items, pool, futures, folder_id, tempFiles, unlinks, raised>>

(* the loop body up to the POST of upload_file *)
UploadStart(i) ==
    /\ pc = "upload"
    /\ i \in 1..Len(upload_items)
    /\ upload_turn(i, upIdx, inflight)
    /\ progressLog' = Append(progressLog, UploadFrac(upload_items, i - 1))
                          \o body_progress(upload_items, i)
    /\ httpLog' = httpLog \o call_upload_file(i, folder_id, upload_items[i].upload_name, curDir)
    /\ curDir' = DirAfter(curDir, call_upload_file(i, folder_id,
                                                   upload_items[i].upload_name, curDir))
    /\ inflight' = inflight \cup {i}
    /\ UNCHANGED <<hostVars, lastCall, calls, bookVars, pc, files_original, cfg, upload_items,
                   pool, futures, folder_id, upIdx, tempFiles, unlinks, errorLog, raised>>

(* an upload loop that logs a failed upload and goes on with the next item *)
UploadFinishContinuing(i, ok) ==
    /\ pc = "upload"
    /\ i \in inflight
    /\ inflight' = inflight \ {i}
    /\ IF upload_items[i].cleanup_path # None
       THEN /\ unlinks' = [unlinks EXCEPT ![i] = @ + 1]
            /\ tempFiles' = tempFiles \ {i}
       ELSE UNCHANGED <<unlinks, tempFiles>>
    /\ progressLog' = Append(progressLog, UploadFrac(upload_items, i))
    /\ upIdx' = upIdx + 1
    /\ raised' = IF ok THEN raised ELSE UploadError
    /\ pc' = IF upIdx = Len(upload_items)
             THEN (IF raised' = None THEN "returned" ELSE "raised")
             ELSE "upload"
    /\ UNCHANGED <<serverVars, hostVars, lastCall, calls, bookVars, files_original, cfg,
                   upload_items, pool, futures, folder_id, errorLog>>

(* the POST is answered; the finally clause deletes the item's converted   *)
(* file; a failure leaves the loop and the call                            *)
UploadFinish(i, ok) ==
    /\ pc = "upload"
    /\ i \in inflight
    /\ inflight' = inflight \ {i}
    /\ IF upload_items[i].cleanup_path # None
       THEN /\ unlinks' = [unlinks EXCEPT ![i] = @ + 1]
            /\ tempFiles' = tempFiles \ {i}
       ELSE UNCHANGED <<unlinks, tempFiles>>
    /\ IF ok
       THEN /\ progressLog' = Append(progressLog, UploadFrac(upload_items, i))
            /\ upIdx' = upIdx + 1
            /\ pc' = IF upIdx = Len(upload_items) THEN "returned" ELSE "upload"
            /\ UNCHANGED raised
       ELSE /\ raised' = UploadError
            /\ pc' = "raised"
            /\ UNCHANGED <<progressLog, upIdx>>
    /\ UNCHANGED <<serverVars, hostVars, lastCall, calls, bookVars, files_original, cfg,
                   upload_items, pool, futures, folder_id, errorLog>>

NextUpload ==
    \/ \E failAt \in 0..2, cpu_count \in {1, 8} : UploadBooksBegin(failAt, cpu_count)
    \/ \E i \in 1..Len(futures) : WorkerStart(i)
    \/ \E i \in 1..Len(futures), outcome \in ConvOutcomes : WorkerFinish(i, outcome)
    \/ \E i \in 1..Len(futures) : Collect(i)
    \/ AbortJoined
    \/ \E ok \in BOOLEAN : Navigate(ok)
    \/ \E i \in 1..Len(upload_items) : UploadStart(i)
    \/ \E i \in 1..Len(upload_items), ok \in BOOLEAN : UploadFinish(i, ok)

SpecUpload == InitUpload /\ [][NextUpload]_vars

-----------------------------------------------------------------------------
(* The conversion-pool specification: one upload_books call of up to       *)
(* MaxPoolItems files, no target folder, a converter that succeeds or      *)
(* times out.                                                              *)

MaxPoolItems == 5

InitPool ==
    /\ curDir = "" /\ httpLog = << >>
    /\ _device = DeviceInfo("10.11.99.1", 1) /\ _last_detection_check = 0
    /\ now = 0 /\ reachable = TRUE
    /\ lastCall = NoCall /\ calls = 0
    /\ booklist = << >> /\ listing = DevFlat /\ nextOid = 1 /\ progressLog = << >>
    /\ pc = "idle"
    /\ files_original \in { [i \in 1..n |-> File(Stems[i], ".epub")] : n \in 1..MaxPoolItems }
    /\ cfg \in [target_folder : {""}, preferred_format : {"epub", "pdf"}]
    /\ inflight = {} /\ upload_items = << >> /\ pool = 0
    /\ futures = << >> /\ folder_id = "" /\ upIdx = 0 /\ tempFiles = {}
    /\ unlinks = << >> /\ errorLog = << >> /\ raised = None

NextPool ==
    \/ \E cpu_count \in CpuCounts : UploadBooksBegin(0, cpu_count)
    \/ \E i \in 1..Len(futures) : WorkerStart(i)
    \/ \E i \in 1..Len(futures), outcome \in {"ok", "timeout"} : WorkerFinish(i, outcome)
    \/ \E i \in 1..Len(futures) : Collect(i)
    \/ AbortJoined
    \/ Navigate(TRUE)
    \/ \E i \in 1..Len(upload_items) : UploadStart(i)
    \/ \E i \in 1..Len(upload_items), ok \in BOOLEAN : UploadFinish(i, ok)

SpecPool == InitPool /\ [][NextPool]_vars

-----------------------------------------------------------------------------
(* Claims about upload_books (under SpecUpload, C6 under SpecPool)         *)

Posts == SelectSeq(httpLog, LAMBDA r : r.op = "POST")

(* the listing requests issued after the target-folder lookup *)
Navigations == SelectSeq(httpLog, LAMBDA r : r.op = "GET" /\ r.by # "find_folder_id")

FirstPostAt == CHOOSE n \in 1..Len(httpLog) :
                  /\ httpLog[n].op = "POST"
                  /\ \A m \in 1..(n - 1) : httpLog[m].op # "POST"

ConvertedOk(i) == futures[i].state = "done" /\ futures[i].exc = None

ConvertFailed(i) == futures[i].state = "done" /\ futures[i].exc # None

(* C1: a batch whose target folder resolved to a non-empty id issues       *)
(* exactly one navigation, a listing of that folder, after every           *)
(* conversion has completed and before the first upload POST, and none     *)
(* for the later uploads, whatever the batch size.                         *)
C1_NavigateOncePerBatch ==
    /\ Len(Navigations) <= 1
    /\ Navigations # << >> =>
          /\ folder_id # "" /\ Navigations[1].id = folder_id
          /\ \A i \in items_to_convert(upload_items) : ConvertedOk(i) /\ futures[i].collected
    /\ (folder_id # "" /\ Posts # << >>) =>
          /\ Len(Navigations) = 1
          /\ \E n \in 1..(FirstPostAt - 1) :
                httpLog[n].op = "GET" /\ httpLog[n].by = "upload_books"

(* C1 witness: a batch of three files, one of them converted, uploaded     *)
(* into a resolved folder with a single navigation.                        *)
C1_Witness ==
    /\ pc = "returned" /\ folder_id # "" /\ Len(Posts) = 3
    /\ items_to_convert(upload_items) # {}
    /\ Len(Navigations) = 1

(* C2: when the target folder resolves to the empty id, every upload POST  *)
(* is issued while the server's current directory is the device root.      *)
C2_EmptyIdUploadsToRoot ==
    folder_id = "" => \A n \in 1..Len(Posts) : Posts[n].dir = ""

(* C3: when upload_books has returned or raised, every converted           *)
(* temporary file has been deleted exactly once, none is left on disk and  *)
(* none was deleted twice.                                                 *)
C3_ConvertedFilesDeletedOnce ==
    /\ \A i \in 1..Len(unlinks) : unlinks[i] <= 1
    /\ pc \in {"returned", "raised"} =>
          /\ tempFiles = {}
          /\ \A i \in 1..Len(futures) : ConvertedOk(i) => unlinks[i] = 1

(* the message of the raised failure contains the item's file name *)
NamesItem(exc, item) ==
    IF exc.type = "RuntimeError"
    THEN exc.stdout_tail = item.local_path \/ exc.stdout_tail = item.upload_name
    ELSE FALSE

NoUploadPhase ==
    /\ Navigations = << >> /\ Posts = << >>
    /\ pc \in {"convert", "aborting", "raised"}

(* C4 as stated: if a conversion fails, no navigation and no upload POST   *)
(* is issued, and the failure upload_books raises names the item whose     *)
(* conversion failed.                                                      *)
C4_Original ==
    (\E i \in 1..Len(futures) : ConvertFailed(i)) =>
        /\ NoUploadPhase
        /\ pc = "raised" =>
              \E i \in 1..Len(futures) : ConvertFailed(i) /\ NamesItem(raised, upload_items[i])

(* C4 amended: if a conversion fails, no navigation and no upload POST is  *)
(* issued; upload_books logs one error that names the item whose failed    *)
(* conversion it met first and raises that conversion's own exception      *)
(* unchanged (return code and stdout tail, or the timeout text).           *)
C4_ConversionFailureAborts ==
    (\E i \in 1..Len(futures) : ConvertFailed(i)) =>
        /\ NoUploadPhase
        /\ pc \in {"aborting", "raised"} =>
              /\ Len(SelectSeq(errorLog, LAMBDA e : e.what = "Conversion failed")) = 1
              /\ \E i \in 1..Len(futures) :
                    /\ ConvertFailed(i) /\ futures[i].collected
                    /\ raised = futures[i].exc
                    /\ Last(errorLog) = [what |-> "Conversion failed",
                                         name |-> upload_items[i].upload_name]

(* C4 witness: a batch of three conversions in which the second timed out  *)
(* and the other two succeeded; the call has raised.                       *)
C4_Witness ==
    /\ pc = "raised" /\ Len(futures) = 3
    /\ ConvertedOk(1) /\ ConvertFailed(2) /\ ConvertedOk(3)
    /\ raised = ConvTimeoutError
    /\ Posts = << >>

(* C5: at most one upload POST is in flight at any time, and the POSTs are *)
(* issued in the batch's item order, each after the previous upload has    *)
(* concluded, whatever order the conversions completed in.                 *)
C5_UploadsSequentialInOrder ==
    /\ Cardinality(inflight) <= 1
    /\ \A n \in 1..Len(Posts) : Posts[n].item = n
    /\ inflight # {} => (Posts # << >> /\ inflight = {Last(Posts).item})

(* C5 witness: the second upload of a batch is in flight after both items  *)
(* went through the conversion pool.                                       *)
C5_Witness ==
    /\ pc = "upload" /\ inflight = {2} /\ Len(Posts) = 2
    /\ ConvertedOk(1) /\ ConvertedOk(2)

(* C6: with k >= 1 items to convert, the conversions running at one time   *)
(* never exceed min(max(cpuCount, 2), 4, k), which lies between 1 and 4;   *)
(* with no item to convert no worker is started.                           *)
C6_PoolBound ==
    pc # "idle" =>
        LET k == Cardinality(items_to_convert(upload_items))
            c == IF lastCall.cpu_count = 0 THEN 2 ELSE lastCall.cpu_count
            bound == Min2(Min2(Max2(c, 2), 4), k)
        IN  IF k >= 1
            THEN /\ Cardinality(Running) <= bound
                 /\ bound \in 1..4
            ELSE /\ Running = {} /\ tempFiles = {}
                 /\ \A i \in 1..Len(futures) : futures[i].state = "none"

(* C6 witness: four conversions run at once while a fifth waits.           *)
C6_Witness ==
    /\ Cardinality(Running) = 4
    /\ Queued # {}

-----------------------------------------------------------------------------
(* Claims about delete_books and sync_booklists (under SpecSync)           *)

(* C8: delete_books, for any list of paths and in any state, fails with    *)
(* the capability error UserFeedback, issues no HTTP request, and leaves   *)
(* the book list and the detected-device state as they were.               *)
C8_DeleteChangesNothing ==
    [][\A paths \in DeletePaths :
          DeleteBooks(paths) =>
             /\ lastCall'.raised = "UserFeedback"
             /\ httpLog' = httpLog /\ curDir' = curDir
             /\ booklist' = booklist
             /\ _device' = _device /\ _last_detection_check' = _last_detection_check]_vars

(* C8 witness: delete_books was called for a path of a book that is in a   *)
(* non-empty list, with a device detected.                                 *)
C8_Witness ==
    /\ lastCall.op = "delete_books"
    /\ _device # None
    /\ \E i \in 1..Len(booklist) : booklist[i].path \in Range(lastCall.paths)

(* a Book some tier can match: a device-entry id, a library id or a        *)
(* non-root display path                                                   *)
HasIdentifier(b) == b.rm_uuid # "" \/ b.uuid # "" \/ (b.path # "" /\ b.path # "/")

AfterSync == lastCall.op = "sync_booklists"

(* C9 as stated: after a successful scan every Book of R has an equal Book *)
(* in the returned collection (remote Books with no equal in the list as   *)
(* grown so far were appended), and every local Book has its equal or      *)
(* itself on the remote side.                                              *)
C9_Original ==
    (AfterSync /\ lastCall.scan_ok) =>
        /\ \A i \in 1..Len(lastCall.scanned) :
              \E j \in 1..Len(lastCall.result) :
                 BookEq(lastCall.scanned[i], lastCall.result[j])
        /\ \A i \in 1..Len(lastCall.before) : BookIn(lastCall.before[i], lastCall.on_device)

(* C9 amended: after a successful scan every Book of R that carries an     *)
(* identifier some tier can match has an equal Book in the returned        *)
(* collection; every Book of R, identifier or not, is in the returned      *)
(* collection itself or has an equal Book there; and every local Book is   *)
(* on the remote side itself or has an equal Book there.                   *)
C9_MergeCoversRemote ==
    (AfterSync /\ lastCall.scan_ok) =>
        /\ booklist = lastCall.result
        /\ \A i \in 1..Len(lastCall.scanned) :
              /\ HasIdentifier(lastCall.scanned[i]) =>
                    \E j \in 1..Len(booklist) : BookEq(lastCall.scanned[i], booklist[j])
              /\ BookIn(lastCall.scanned[i], booklist)
        /\ \A i \in 1..Len(lastCall.before) : BookIn(lastCall.before[i], lastCall.on_device)

(* C9 witness: a successful scan after which one remote Book was appended  *)
(* to the list, another matched a Book already there and was not, and a    *)
(* local Book unknown to the tablet was appended to the remote side.       *)
C9_Witness ==
    /\ AfterSync /\ lastCall.scan_ok
    /\ \E i \in 1..Len(lastCall.scanned) :
          /\ ~BookIn(lastCall.scanned[i], lastCall.before)
          /\ \E j \in (Len(lastCall.before) + 1)..Len(booklist) :
                booklist[j].oid = lastCall.scanned[i].oid
    /\ \E i \in 1..Len(lastCall.scanned) :
          /\ BookIn(lastCall.scanned[i], lastCall.before)
          /\ \A j \in 1..Len(booklist) : booklist[j].oid # lastCall.scanned[i].oid
    /\ \E i \in 1..Len(lastCall.before) :
          /\ ~BookIn(lastCall.before[i], lastCall.scanned)
          /\ \E j \in (Len(lastCall.scanned) + 1)..Len(lastCall.on_device) :
                lastCall.on_device[j].oid = lastCall.before[i].oid

(* C10: sync_booklists is a non-destructive union: whatever the scan       *)
(* returned (or if it failed), the returned collection starts with the     *)
(* entries of L in their original order, new entries come only after them, *)
(* and a Book the tablet no longer lists is still there.                   *)
C10_SyncKeepsLocalPrefix ==
    AfterSync =>
        /\ booklist = lastCall.result
        /\ Len(booklist) >= Len(lastCall.before)
        /\ SubSeq(booklist, 1, Len(lastCall.before)) = lastCall.before

(* C10 witness: a successful scan that no longer lists a Book of L, which  *)
(* is kept, while a new remote Book is appended after it.                  *)
C10_Witness ==
    /\ AfterSync /\ lastCall.scan_ok
    /\ Len(booklist) > Len(lastCall.before)
    /\ \E i \in 1..Len(lastCall.before) :
          /\ lastCall.before[i].rm_uuid # ""
          /\ ~BookIn(lastCall.before[i], lastCall.scanned)
          /\ booklist[i] = lastCall.before[i]

-----------------------------------------------------------------------------
(* The Book-equality specification: three Books with every combination of  *)
(* device-entry id, library id and display path (empty, the root default   *)
(* "/", or a name), compared pairwise, each with itself included.          *)

RmIds == {"", "x", "z"}

LibIds == {"", "y", "w"}

Paths == {"", "/", "p", "q"}

EqBooks(oid) == { Book(oid, u, r, p) : u \in LibIds, r \in RmIds, p \in Paths }

InitEq ==
    /\ curDir = "" /\ httpLog = << >>
    /\ _device = None /\ _last_detection_check = 0 /\ now = 0 /\ reachable = TRUE
    /\ lastCall = NoCall /\ calls = 0
    /\ booklist \in { <<a, b, c>> : a \in EqBooks(1), b \in EqBooks(2), c \in EqBooks(3) }
    /\ listing = DevEmpty /\ nextOid = 4 /\ progressLog = << >>
    /\ IdleUpload

(* booklist[i] == booklist[j], and the same comparison the other way round *)
CompareBooks(i, j) ==
    /\ lastCall' = [op |-> "__eq__", a |-> i, b |-> j,
                    result |-> BookEq(booklist[i], booklist[j]),
                    tiers |-> <<TierRm(booklist[i], booklist[j]),
                                TierUuid(booklist[i], booklist[j]),
                                TierPath(booklist[i], booklist[j])>>,
                    reflected |-> BookEq(booklist[j], booklist[i]),
                    reflected_tiers |-> <<TierRm(booklist[j], booklist[i]),
                                          TierUuid(booklist[j], booklist[i]),
                                          TierPath(booklist[j], booklist[i])>>]
    /\ UNCHANGED <<serverVars, hostVars, calls, bookVars, progressLog, uploadVars>>

NextEq == \E i \in 1..3, j \in 1..3 : CompareBooks(i, j)

SpecEq == InitEq /\ [][NextEq]_vars

Compared == lastCall.op = "__eq__"

Left == booklist[lastCall.a]

Right == booklist[lastCall.b]

(* C11: a == b is true exactly when the device-entry ids are both          *)
(* non-empty and equal, or the library ids are both non-empty and equal,   *)
(* or the display paths are both non-empty, both not "/", and equal.       *)
C11_EqualityIsTierDisjunction ==
    Compared =>
        (lastCall.result <=>
            \/ (Left.rm_uuid # "" /\ Right.rm_uuid # "" /\ Left.rm_uuid = Right.rm_uuid)
            \/ (Left.uuid # "" /\ Right.uuid # "" /\ Left.uuid = Right.uuid)
            \/ (/\ Left.path # "" /\ Right.path # ""
                /\ Left.path # "/" /\ Right.path # "/"
                /\ Left.path = Right.path))

(* two Books whose device-entry ids differ and that match on a later tier *)
C11_Witness ==
    /\ Compared /\ lastCall.a # lastCall.b /\ lastCall.result
    /\ Left.rm_uuid # "" /\ Right.rm_uuid # "" /\ Left.rm_uuid # Right.rm_uuid

(* C12 as stated: every Book, whatever its identifiers, satisfies a == a.  *)
C12_Original ==
    (Compared /\ lastCall.a = lastCall.b) => lastCall.result

(* C12: a Book satisfies a == a exactly when it carries a non-empty        *)
(* device-entry id, a non-empty library id, or a display path that is      *)
(* neither empty nor "/"; a Book with none of them is not equal to itself. *)
C12_ReflexiveWithIdentifier ==
    (Compared /\ lastCall.a = lastCall.b) =>
        (lastCall.result <=>
            (Left.rm_uuid # "" \/ Left.uuid # "" \/ (Left.path # "" /\ Left.path # "/")))

(* a Book whose only identifier is its display path, compared with itself *)
C12_Witness ==
    /\ Compared /\ lastCall.a = lastCall.b
    /\ Left.rm_uuid = "" /\ Left.uuid = "" /\ Left.path = "p"
    /\ lastCall.result

(* C13: a == b holds if and only if b == a holds, and each of the three    *)
(* tiers alone gives the same answer both ways round.                      *)
C13_EqualitySymmetric ==
    Compared =>
        /\ lastCall.result = lastCall.reflected
        /\ \A k \in 1..3 : lastCall.tiers[k] = lastCall.reflected_tiers[k]

(* two different Books, one with a library id and one without, compared *)
C13_Witness ==
    /\ Compared /\ lastCall.a # lastCall.b
    /\ Left.uuid # "" /\ Right.uuid = ""
    /\ lastCall.result /\ lastCall.reflected

(* A has only the device-entry id "x", B the library id "y" and the        *)
(* device-entry id "x", C only the library id "y"; paths are the default.  *)
TransitivityTriple ==
    /\ booklist[1].rm_uuid = "x" /\ booklist[1].uuid = "" /\ booklist[1].path = "/"
    /\ booklist[2].rm_uuid = "x" /\ booklist[2].uuid = "y" /\ booklist[2].path = "/"
    /\ booklist[3].rm_uuid = "" /\ booklist[3].uuid = "y" /\ booklist[3].path = "/"

(* C14: for that A, B and C, A == B and B == C hold and A == C is false.   *)
C14_NotTransitive ==
    (Compared /\ TransitivityTriple) =>
        /\ (lastCall.a = 1 /\ lastCall.b = 2) => lastCall.result
        /\ (lastCall.a = 2 /\ lastCall.b = 3) => lastCall.result
        /\ (lastCall.a = 1 /\ lastCall.b = 3) => ~lastCall.result

(* A compared with C, after which A == C is false *)
C14_Witness ==
    /\ Compared /\ TransitivityTriple
    /\ lastCall.a = 1 /\ lastCall.b = 3 /\ ~lastCall.result

-----------------------------------------------------------------------------
(* The crawler specification: build_file_tree, find_folder_id and          *)
(* is_reachable called against tablets whose folder graph is a tree, has a *)
(* cycle, or holds a malformed entry, with connection failures.            *)

MaxDepth == 3

MaxCrawls == 2

CrawlDevices == {DevEmpty, DevFolder, DevTwoFolders, DevCycle, DevSelfLoop, DevMalformed, DevSameId}

FolderNames == {"", "Calibre", "calibre", "Missing", "loop/back"}

InitCrawl ==
    /\ curDir = "" /\ httpLog = << >>
    /\ _device = None /\ _last_detection_check = 0 /\ now = 0 /\ reachable = TRUE
    /\ lastCall = NoCall /\ calls = 0
    /\ booklist = << >> /\ listing \in CrawlDevices /\ nextOid = 1 /\ progressLog = << >>
    /\ IdleUpload

BuildFileTree(root_id, max_depth, failAt) ==
    /\ calls < MaxCrawls
    /\ LET r == build_file_tree(listing, root_id, 0, max_depth, CrawlStart(failAt)) IN
       /\ lastCall' = [op |-> "build_file_tree", root_id |-> root_id,
                       max_depth |-> max_depth, ok |-> r.ok,
                       tree |-> r.tree, reqs |-> r.st.reqs, depths |-> r.st.depths,
                       progress |-> r.st.progress]
       /\ httpLog' = httpLog \o r.st.reqs
       /\ curDir' = DirAfter(curDir, r.st.reqs)
    /\ calls' = calls + 1
    /\ UNCHANGED <<hostVars, bookVars, progressLog, uploadVars>>

FindFolderId(folder_name, failAt) ==
    /\ calls < MaxCrawls
    /\ LET r == find_folder_id(listing, folder_name, CrawlStart(failAt)) IN
       /\ lastCall' = [op |-> "find_folder_id", folder_name |-> folder_name, id |-> r.id,
                       raised |-> r.raised, folder_map |-> r.folder_map,
                       reqs |-> r.st.reqs, depths |-> r.st.depths]
       /\ httpLog' = httpLog \o r.st.reqs
       /\ curDir' = DirAfter(curDir, r.st.reqs)
    /\ calls' = calls + 1
    /\ UNCHANGED <<hostVars, bookVars, progressLog, uploadVars>>

IsReachable(outcome) ==
    /\ calls < MaxCrawls
    /\ LET r == is_reachable(outcome) IN
       /\ lastCall' = [op |-> "is_reachable", outcome |-> outcome, result |-> r.value,
                       raised |-> r.raised, reqs |-> r.reqs]
       /\ httpLog' = httpLog \o r.reqs
       /\ curDir' = DirAfter(curDir, r.reqs)
    /\ calls' = calls + 1
    /\ UNCHANGED <<hostVars, bookVars, progressLog, uploadVars>>

NextCrawl ==
    \/ \E root_id \in {"", "f1"}, max_depth \in 0..MaxDepth, failAt \in 0..2 :
          BuildFileTree(root_id, max_depth, failAt)
    \/ \E folder_name \in FolderNames, failAt \in 0..2 : FindFolderId(folder_name, failAt)
    \/ \E outcome \in FetchOutcomes : IsReachable(outcome)

SpecCrawl == InitCrawl /\ [][NextCrawl]_vars

(* the nesting depth of a tree: 0 for the empty tree *)
RECURSIVE NestingDepth(_)
NestingDepth(tree) ==
    IF tree = << >> THEN 0
    ELSE 1 + CHOOSE m \in 0..(MaxDepth + 2) :
                /\ \A i \in 1..Len(tree) : NestingDepth(tree[i].subtree) <= m
                /\ \/ m = 0
                   \/ \E i \in 1..Len(tree) : NestingDepth(tree[i].subtree) = m

(* every folder node `levels` levels down has an empty subtree *)
RECURSIVE EmptyBelow(_, _)
EmptyBelow(tree, levels) ==
    IF levels = 0 THEN tree = << >>
    ELSE \A i \in 1..Len(tree) : EmptyBelow(tree[i].subtree, levels - 1)

(* every listing of the tablet is well formed *)
WellFormed(dev) == \A id \in DOMAIN dev : \A i \in 1..Len(dev[id]) : dev[id][i].hasID

(* C15: whatever the tablet answers, a cyclic folder graph included,       *)
(* build_file_tree with depth bound d returns; every listing request was   *)
(* issued at a recursion depth in 0..d-1; a folder reached at depth d gets *)
(* an empty subtree and does not make the crawl fail; the tree returned    *)
(* has nesting depth at most d.                                            *)
C15_CrawlDepthBounded ==
    lastCall.op = "build_file_tree" =>
        /\ Len(lastCall.depths) = Len(lastCall.reqs)
        /\ \A k \in 1..Len(lastCall.depths) : lastCall.depths[k] \in 0..(lastCall.max_depth - 1)
        /\ ((\A k \in 1..Len(lastCall.reqs) : lastCall.reqs[k].ok) /\ WellFormed(listing))
              => lastCall.ok
        /\ NestingDepth(lastCall.tree) <= lastCall.max_depth
        /\ EmptyBelow(lastCall.tree, lastCall.max_depth)

(* a crawl of a cyclic folder graph that went down to the depth bound and  *)
(* returned a tree exactly that deep                                       *)
C15_Witness ==
    /\ lastCall.op = "build_file_tree" /\ lastCall.ok
    /\ listing \in {DevCycle, DevSelfLoop}
    /\ lastCall.max_depth >= 2
    /\ NestingDepth(lastCall.tree) = lastCall.max_depth
    /\ \E k \in 1..Len(lastCall.depths) : lastCall.depths[k] = lastCall.max_depth - 1

(* the crawled folders whose path matches the name, exactly or ignoring case *)
MatchingFolders ==
    { i \in 1..Len(lastCall.folder_map) :
        Lower(lastCall.folder_map[i].key) = Lower(lastCall.folder_name) }

(* C16: find_folder_id never raises; it returns the id of a crawled folder *)
(* matching the name, or ""; and "" when no crawled folder matches, the    *)
(* device is unreachable or a listing is malformed.                        *)
C16_FindFolderNeverRaises ==
    lastCall.op = "find_folder_id" =>
        /\ ~lastCall.raised
        /\ \/ lastCall.id = ""
           \/ \E i \in MatchingFolders : lastCall.folder_map[i].value = lastCall.id
        /\ MatchingFolders = {} => lastCall.id = ""
        /\ (\E k \in 1..Len(lastCall.reqs) : ~lastCall.reqs[k].ok) => lastCall.id = ""
        /\ (lastCall.folder_name # "" /\ ~WellFormed(listing)) => lastCall.id = ""

(* a lookup whose crawl failed, on a request or on a malformed entry, and  *)
(* that returned the root sentinel                                         *)
C16_Witness ==
    /\ lastCall.op = "find_folder_id" /\ lastCall.folder_name = "Calibre"
    /\ lastCall.reqs # << >>
    /\ (~WellFormed(listing) \/ ~Last(lastCall.reqs).ok)
    /\ lastCall.id = "" /\ ~lastCall.raised

(* C17: is_reachable issues one listing request for the root and returns  *)
(* true if it succeeds and false on a refused connection, a timeout, a     *)
(* non-success status or an unparseable response; it never raises.         *)
C17_ReachableNeverRaises ==
    lastCall.op = "is_reachable" =>
        /\ ~lastCall.raised
        /\ lastCall.result = (lastCall.outcome = "ok")
        /\ Len(lastCall.reqs) = 1
        /\ lastCall.reqs[1].op = "GET" /\ lastCall.reqs[1].id = ""
        /\ httpLog # << >> /\ Last(httpLog) = lastCall.reqs[1]

(* a poll answered with a body that is not JSON, reported as unreachable *)
C17_Witness ==
    /\ lastCall.op = "is_reachable" /\ lastCall.outcome = "bad_json"
    /\ lastCall.result = FALSE /\ ~lastCall.raised

-----------------------------------------------------------------------------
(* rm_web_interface.py: one upload_file call in full: the optional         *)
(* navigation, _prepare_epub, the multipart body, the POST and its answer, *)
(* and the finally clause.  Sizes are byte counts; a temporary archive is  *)
(* named by a positive number and 0 stands for "no file" (None).           *)

MaxUploads == 1

FileName(f) == f.stem \o f.ext

(* _MIME_TYPES.get(ext), else application/octet-stream *)
mime_type(f) ==
    IF Lower(f.ext) = ".epub" THEN "application/epub+zip"
    ELSE IF Lower(f.ext) = ".pdf" THEN "application/pdf"
    ELSE "application/octet-stream"

(* len(body) of _build_multipart(filename, file_data): the boundary line   *)
(* (51 bytes), the Content-Disposition line (58 + the name), the           *)
(* Content-Type line (16 + the type), CRLF, the data, CRLF, the closing    *)
(* boundary line (53)                                                      *)
_build_multipart(filename, data_len) ==
    51 + (58 + Len(FileName(filename))) + (16 + Len(mime_type(filename))) + 2
       + data_len + 2 + 53

(* What repackaging can meet: it succeeds; the file is not a ZIP archive   *)
(* (BadZipFile on opening, before the new archive exists); a member fails  *)
(* its CRC check while being copied (BadZipFile, the new archive exists);  *)
(* writing the new archive fails (OSError, the new archive exists).        *)
PrepOutcomes == {"repacked", "bad_zip", "bad_member", "write_error"}

(* _prepare_epub(path): returns [path, size, cleanup_path, created,        *)
(* raised]; `tmp` is the name NamedTemporaryFile picks, `packed` the size  *)
(* of the new archive, `created` the temporary files the call created.     *)
_prepare_epub(path, size, outcome, tmp, packed) ==
    IF Lower(path.ext) # ".epub"
    THEN [path |-> path, size |-> size, cleanup_path |-> 0, created |-> {}, raised |-> None]
    ELSE IF outcome = "bad_zip"
    THEN [path |-> path, size |-> size, cleanup_path |-> 0, created |-> {}, raised |-> None]
    ELSE IF outcome = "bad_member"
    THEN [path |-> path, size |-> size, cleanup_path |-> 0, created |-> {tmp},
          raised |-> None]
    ELSE IF outcome = "write_error"
    THEN [path |-> path, size |-> size, cleanup_path |-> 0, created |-> {tmp},
          raised |-> [type |-> "OSError"]]
    ELSE [path |-> File("tmp", ".epub"), size |-> packed, cleanup_path |-> tmp,
          created |-> {tmp}, raised |-> None]

(* How the POST can be answered: 200 with a JSON body, a non-success       *)
(* status, a refused connection, 200 with a body that is not JSON.         *)
UploadResponses == {"ok", "http_400", "http_507", "refused", "bad_json"}

HttpFailures == {"http_400", "http_507"}

status_code(response) == IF response = "http_400" THEN 400 ELSE 507

(* a failure that reports the status and the error body only *)
upload_failure_status_only(code, error_len, display_name, body_len) ==
    [type |-> "RuntimeError", code |-> code,
     body_len |-> IF error_len = 0 THEN 10 ELSE error_len,
     file |-> File("", ""), size |-> 0]

(* RuntimeError(f"Upload failed (HTTP {code}): {error_body or 'no          *)
(* details'} [file={display_name}, size={len(body)}]"): the interpolated   *)
(* values; the error body is kept by its length, 'no details' being 10     *)
(* characters.                                                             *)
upload_failure(code, error_len, display_name, body_len) ==
    [type |-> "RuntimeError", code |-> code,
     body_len |-> IF error_len = 0 THEN 10 ELSE error_len,
     file |-> display_name, size |-> body_len]

RECURSIVE Digits(_)
Digits(n) == IF n < 10 THEN 1 ELSE 1 + Digits(n \div 10)

(* len(str(exc)) of that RuntimeError *)
message_length(exc) ==
    20 + Digits(exc.code) + 3 + exc.body_len + 7 + Len(FileName(exc.file)) + 7
       + Digits(exc.size) + 1

(* the whole call: returns the requests issued, the exception raised (or   *)
(* None), the temporary files created and those deleted, and the           *)
(* Content-Length of the POST (0 when none was sent)                       *)
upload_file_call(local_path, size, fid, display_name, navigate, nav_ok, prep, packed, response, error_len, tmp, dir) ==
    LET reqs == upload_file(local_path, fid, display_name, navigate, nav_ok, dir)
        prepared == _prepare_epub(local_path, size, prep, tmp, packed)
        body_len == _build_multipart(display_name, prepared.size)
        unlinked == IF prepared.cleanup_path # 0 THEN {prepared.cleanup_path} ELSE {}
    IN  IF prepared.raised # None
        THEN [reqs |-> SelectSeq(reqs, LAMBDA r : r.op = "GET"), raised |-> prepared.raised,
              created |-> prepared.created, unlinked |-> {}, content_length |-> 0]
        ELSE [reqs |-> reqs,
              raised |-> IF response = "ok" THEN None
                         ELSE IF response \in HttpFailures
                         THEN upload_failure(status_code(response), error_len, display_name,
                                             body_len)
                         ELSE IF response = "refused" THEN [type |-> "URLError"]
                         ELSE [type |-> "JSONDecodeError"],
              created |-> prepared.created, unlinked |-> unlinked,
              content_length |-> body_len]

-----------------------------------------------------------------------------
(* The upload_file specification: calls of upload_file with an EPUB or a   *)
(* PDF, every outcome of repackaging and every answer to the POST.         *)

UploadFiles ==
    { [path |-> File("b1", ".epub"), size |-> 1200],
      [path |-> File("b2", ".pdf"), size |-> 800],
      [path |-> File("b3", ".EPUB"), size |-> 95] }

PackedSizes == {1100, 1300}

(* lengths of the error body a non-success answer carries *)
ErrorBodyLens == {0, 40, 100000}

LongestErrorBody == CHOOSE n \in ErrorBodyLens : \A m \in ErrorBodyLens : m <= n

InitUploadFile ==
    /\ curDir \in {"", "f1"} /\ httpLog = << >>
    /\ _device = None /\ _last_detection_check = 0 /\ now = 0 /\ reachable = TRUE
    /\ lastCall = NoCall /\ calls = 0
    /\ booklist = << >> /\ listing = DevFolder /\ nextOid = 1 /\ progressLog = << >>
    /\ IdleUpload

UploadFile(f, fid, navigate, nav_ok, prep, packed, response, error_len) ==
    /\ calls < MaxUploads
    /\ LET r == upload_file_call(f.path, f.size, fid, f.path, navigate, nav_ok, prep, packed,
                                 response, error_len, calls + 1, curDir) IN
       /\ lastCall' = [op |-> "upload_file", local_path |-> f.path, display_name |-> f.path,
                       navigate |-> navigate, nav_ok |-> nav_ok,
                       prep |-> prep, response |-> response, response_len |-> error_len,
                       raised |-> r.raised, created |-> r.created,
                       content_length |-> r.content_length]
       /\ tempFiles' = (tempFiles \cup r.created) \ r.unlinked
       /\ httpLog' = httpLog \o r.reqs
       /\ curDir' = DirAfter(curDir, r.reqs)
    /\ calls' = calls + 1
    /\ UNCHANGED <<hostVars, bookVars, progressLog, pc, files_original, inflight, cfg,
                   upload_items, pool, futures, folder_id, upIdx, unlinks, errorLog, raised>>

NextUploadFile ==
    \E f \in UploadFiles, fid \in {"", "f1"}, navigate \in BOOLEAN, nav_ok \in BOOLEAN,
       prep \in PrepOutcomes, packed \in PackedSizes, response \in UploadResponses,
       error_len \in ErrorBodyLens :
        UploadFile(f, fid, navigate, nav_ok, prep, packed, response, error_len)

SpecUploadFile == InitUploadFile /\ [][NextUploadFile]_vars

AfterUploadFile == lastCall.op = "upload_file"

(* the POST was sent and answered with a non-success status *)
HttpFailed ==
    /\ AfterUploadFile /\ lastCall.content_length > 0
    /\ lastCall.response \in HttpFailures

(* C18: every temporary archive repackaging created during an upload_file  *)
(* call is gone when the call has returned or raised: after a successful   *)
(* upload, an HTTP failure, a connection failure, and a repackaging that   *)
(* failed partway through writing the new archive.                         *)
C18_TempArchiveDeleted ==
    AfterUploadFile => lastCall.created \cap tempFiles = {}

(* C19: a POST answered with a non-success status s makes upload_file      *)
(* raise one failure whose message holds s, the destination display name   *)
(* and the exact number of bytes of the request body sent.                 *)
C19_HttpFailureDescribed ==
    HttpFailed =>
        /\ lastCall.raised.type = "RuntimeError"
        /\ lastCall.raised.code = (IF lastCall.response = "http_507" THEN 507 ELSE 400)
        /\ lastCall.raised.file = lastCall.display_name
        /\ lastCall.raised.size = lastCall.content_length
        /\ \E i \in 1..Len(httpLog) :
              httpLog[i].op = "POST" /\ httpLog[i].name = lastCall.display_name

(* a repackaged EPUB whose POST is answered 507: the size reported is that *)
(* of the body built from the new archive                                  *)
C19_Witness ==
    /\ HttpFailed /\ lastCall.response = "http_507"
    /\ lastCall.prep = "repacked" /\ lastCall.created # {}
    /\ lastCall.raised.code = 507
    /\ lastCall.raised.size = lastCall.content_length
    /\ lastCall.content_length > 1100

(* C20: the error body captured into the failure is cut to a fixed maximum *)
(* length, so that the longest answer of the server is not captured whole  *)
(* and the message is no longer than for any shorter answer that reaches   *)
(* that maximum.                                                           *)
C20_ErrorBodyBounded ==
    (HttpFailed /\ lastCall.response_len = LongestErrorBody) =>
        /\ lastCall.raised.body_len < lastCall.response_len
        /\ message_length(lastCall.raised) < lastCall.response_len

-----------------------------------------------------------------------------
(* The host-call specification: the host makes one call of the plugin,     *)
(* upload_books (run step by step), sync_booklists or upload_file.         *)

(* no call made yet and no batch handed over: the upload variables play no *)
(* part in sync_booklists and upload_file                                  *)
Fresh == pc = "idle" /\ lastCall = NoCall /\ files_original = << >>

NextCalls ==
    \/ (lastCall.op \in {"none", "upload_books"} /\ NextUpload)
    \/ (Fresh /\ \E failAt \in 0..2 : SyncBooklists(failAt))
    \/ (Fresh /\ NextUploadFile)

SpecCalls == InitUpload /\ [][NextCalls]_vars

(* C24: within one upload_books call, with or without conversions, and     *)
(* within one sync_booklists call, the fractions passed to report_progress *)
(* never decrease and lie in [0, 1], and a call that completes has         *)
(* reported 1.0 last.  Fractions are scaled by 6000.                       *)
C24_ProgressMonotone ==
    /\ \A i \in 1..Len(progressLog) : progressLog[i] \in 0..6000
    /\ \A i \in 1..(Len(progressLog) - 1) : progressLog[i] <= progressLog[i + 1]
    /\ (lastCall.op = "upload_books" /\ pc = "returned" /\ files_original # << >>)
          => (progressLog # << >> /\ Last(progressLog) = 6000)
    /\ lastCall.op = "sync_booklists"
          => (progressLog # << >> /\ Last(progressLog) = 6000)

(* a batch of two or more items, some converted, that was uploaded whole *)
C24_Witness ==
    /\ lastCall.op = "upload_books" /\ pc = "returned"
    /\ Len(upload_items) >= 2 /\ items_to_convert(upload_items) # {}
    /\ Len(progressLog) >= 8 /\ Last(progressLog) = 6000

(* the listing requests of the target-folder lookup *)
Lookups(log) == SelectSeq(log, LAMBDA r : r.by = "find_folder_id")

(* some conversion has started *)
Started == \E i \in 1..Len(futures) : futures[i].state \in {"running", "done"}

PhaseOrder ==
    /\ \A m \in 1..Len(httpLog), n \in 1..Len(httpLog) :
          (m < n /\ httpLog[n].by = "find_folder_id") => httpLog[m].by = "find_folder_id"
    /\ Started => pc # "idle"
    /\ (Navigations # << >> \/ Posts # << >> \/ pc = "upload") =>
          /\ Running = {} /\ Queued = {}
          /\ \A i \in items_to_convert(upload_items) :
                futures[i].state = "done" /\ futures[i].collected
    /\ (Posts # << >> /\ folder_id # "") =>
          \E n \in 1..(FirstPostAt - 1) : httpLog[n].by = "upload_books"
    /\ inflight # {} => Running = {}

(* C26: in one upload_books batch the listing requests of the folder       *)
(* lookup are all issued before any conversion starts, every conversion    *)
(* has completed before the pre-upload navigation, the navigation precedes *)
(* the first upload POST, and no upload is in flight while a conversion    *)
(* worker runs.                                                            *)
C26_PhasesInOrder ==
    /\ []PhaseOrder
    /\ [][Started => Lookups(httpLog') = Lookups(httpLog)]_vars

(* an upload in flight to a resolved folder after two conversions *)
C26_Witness ==
    /\ pc = "upload" /\ inflight # {}
    /\ Cardinality(items_to_convert(upload_items)) >= 2
    /\ folder_id # "" /\ Lookups(httpLog) # << >> /\ Len(Navigations) = 1

(* C27: when the upload of item k fails, upload_books raises at once: no   *)
(* POST was or will be issued for an item after k, each item before k was  *)
(* uploaded exactly once, and no item was uploaded twice.                  *)
C27_UploadFailureStopsBatch ==
    /\ raised = UploadError => (pc = "raised" /\ inflight = {})
    /\ (pc = "raised" /\ raised = UploadError) =>
          /\ Len(Posts) = upIdx
          /\ \A n \in 1..Len(Posts) : Posts[n].item = n
    /\ \A m \in 1..Len(Posts), n \in 1..Len(Posts) :
          Posts[m].item = Posts[n].item => m = n

(* the second of three uploads failed *)
C27_Witness ==
    /\ pc = "raised" /\ raised = UploadError
    /\ Len(upload_items) = 3 /\ upIdx = 2 /\ Len(Posts) = 2

(* C29: a failed navigation listing, in upload_file called with navigation *)
(* or in upload_books before the upload loop, is not propagated, and the   *)
(* upload POST that follows is still issued.                               *)
C29_NavigationFailureNonFatal ==
    /\ (lastCall.op = "upload_books"
          /\ \E n \in 1..Len(httpLog) : httpLog[n].by = "upload_books" /\ ~httpLog[n].ok) =>
          /\ pc \in {"upload", "returned", "raised"}
          /\ pc \in {"returned", "raised"} => Posts # << >>
          /\ pc = "raised" => raised = UploadError
    /\ (lastCall.op = "upload_file" /\ lastCall.navigate /\ ~lastCall.nav_ok
          /\ lastCall.content_length > 0) =>
          /\ Len(httpLog) >= 2
          /\ Last(httpLog).op = "POST"
          /\ httpLog[Len(httpLog) - 1].op = "GET" /\ ~httpLog[Len(httpLog) - 1].ok
          /\ lastCall.response = "ok" => lastCall.raised = None

(* a batch uploaded whole although its pre-upload navigation failed *)
C29_Witness ==
    /\ lastCall.op = "upload_books" /\ pc = "returned"
    /\ \E n \in 1..Len(httpLog) : httpLog[n].by = "upload_books" /\ ~httpLog[n].ok
    /\ Len(Posts) = Len(upload_items)

(* C30: find_folder_id lists at most 3 levels of folders; when the folder  *)
(* map has a path equal to the requested name it returns that path's id,   *)
(* also when other paths differ from the name only in case; it returns a   *)
(* case-insensitive match only when no path is equal to the name.          *)
C30_ExactMatchPreferred ==
    lastCall.op = "find_folder_id" =>
        /\ \A k \in 1..Len(lastCall.depths) : lastCall.depths[k] \in 0..2
        /\ \A i \in 1..Len(lastCall.folder_map) :
              lastCall.folder_map[i].key = lastCall.folder_name
                 => lastCall.id = lastCall.folder_map[i].value
        /\ (lastCall.id # ""
              /\ \A i \in 1..Len(lastCall.folder_map) :
                    lastCall.folder_map[i].key # lastCall.folder_name) =>
              \E i \in MatchingFolders : lastCall.folder_map[i].value = lastCall.id

(* "calibre" looked up on a tablet that lists "Calibre" before "calibre" *)
C30_Witness ==
    /\ lastCall.op = "find_folder_id" /\ listing = DevTwoFolders
    /\ lastCall.folder_name = "calibre" /\ lastCall.id = "f2"
    /\ lastCall.folder_map[1].key = "Calibre"

-----------------------------------------------------------------------------
(* The repackaging specification: _prepare_epub on the members of an       *)
(* archive.                                                                *)

(* The content of a member.  kind is "bytes" (not XML), "badxml" (XML that *)
(* ET.fromstring rejects with ParseError), "badenc" (XML whose declaration *)
(* names an encoding the parser does not support, e.g. gbk: ET.fromstring  *)
(* raises ValueError or LookupError), "xml" (XML without a rootfile        *)
(* element), "container" (text is the rootfile's full-path), "opf" (a      *)
(* package document: the cover meta's content, the manifest items, the     *)
(* spine idrefs, the guide hrefs) or "page" (text is the image reference   *)
(* the page shows).                                                        *)
Data(kind, text, cover, manifest, spine, guide) == [kind |-> kind, text |-> text, cover |-> cover, manifest |-> manifest, spine |-> spine, guide |-> guide]

Bytes(text) == Data("bytes", text, "", << >>, << >>, << >>)

Page(text) == Data("page", text, "", << >>, << >>, << >>)

Opf(cover, manifest, spine, guide) == Data("opf", "", cover, manifest, spine, guide)

Item(id, href, media_type) == [id |-> id, href |-> href, media_type |-> media_type]

(* a member of an archive; crc_ok is FALSE when its data fails the CRC-32  *)
(* check on reading                                                        *)
ZipInfo(filename, data, compress_type, extra, crc_ok) == [filename |-> filename, data |-> data, compress_type |-> compress_type, extra |-> extra, crc_ok |-> crc_ok]

(* mi = ZipInfo("mimetype"), stored, extra = b"", b"application/epub+zip" *)
mi == ZipInfo("mimetype", Bytes("application/epub+zip"), "stored", "", TRUE)

FirstOf(S) == CHOOSE x \in S : \A y \in S : x <= y

LastOf(S) == CHOOSE x \in S : \A y \in S : x >= y

Named(entries, name) == { i \in 1..Len(entries) : entries[i].filename = name }

(* ZipFile.getinfo(name): the last member of that name *)
getinfo(entries, name) == entries[LastOf(Named(entries, name))]

(* what src.read(name) raises: KeyError when no member has the name,       *)
(* BadZipFile when the member's data fails its CRC check, "" when it       *)
(* returns                                                                 *)
read_raises(entries, name) ==
    IF Named(entries, name) = {} THEN "KeyError"
    ELSE IF ~getinfo(entries, name).crc_ok THEN "BadZipFile"
    ELSE ""

read(entries, name) == getinfo(entries, name).data

(* what ET.fromstring(data) raises *)
fromstring_raises(data) ==
    IF data.kind \in {"bytes", "badxml"} THEN "ParseError"
    ELSE IF data.kind = "badenc" THEN "ValueError"
    ELSE ""

(* filename.endswith(".opf") on the member names of the model *)
endswith_opf(filename) == filename \in {"OEBPS/content.opf", "extra.opf"}

(* posixpath.dirname on the package paths of the model *)
dirname(p) == IF p \in {"OEBPS/content.opf", "OEBPS/gone.opf"} THEN "OEBPS" ELSE ""

(* posixpath.join(opf_dir, href) if opf_dir else href *)
join_opf_dir(opf_dir, href) == IF opf_dir # "" THEN opf_dir \o "/" \o href ELSE href

(* _locate_opf(zf): [raised, opf_path], opf_path "" standing for None *)
_locate_opf(entries) ==
    LET c == "META-INF/container.xml"
        scan == { i \in 1..Len(entries) : endswith_opf(entries[i].filename) }
        scanned == [raised |-> "",
                    opf_path |-> IF scan = {} THEN "" ELSE entries[FirstOf(scan)].filename]
    IN  IF read_raises(entries, c) = "KeyError" THEN scanned
        ELSE IF read_raises(entries, c) # ""
        THEN [raised |-> read_raises(entries, c), opf_path |-> ""]
        ELSE IF fromstring_raises(read(entries, c)) = "ParseError" THEN scanned
        ELSE IF fromstring_raises(read(entries, c)) # ""
        THEN [raised |-> fromstring_raises(read(entries, c)), opf_path |-> ""]
        ELSE IF read(entries, c).kind = "container"
        THEN [raised |-> "", opf_path |-> read(entries, c).text]
        ELSE scanned

(* media.startswith("image/") on the media types of the model *)
is_image(media_type) == media_type \in {"image/jpeg", "image/png"}

(* cover_href in page_text: the page shows that image *)
page_shows(data, cover_href) == data.text = cover_href

(* _ensure_cover_page(zf, opf_path, opf_bytes): [raised, patched, opf,     *)
(* new_files]; patched FALSE stands for a None first result.  A missing    *)
(* manifest or spine element is an empty one.                              *)
_ensure_cover_page(entries, opf_path, opf_bytes) ==
    LET root == opf_bytes
        result(exc, patched, opf, new_files) ==
            [raised |-> exc, patched |-> patched, opf |-> opf, new_files |-> new_files]
        unchanged == result("", FALSE, opf_bytes, << >>)
        cover_img_id == root.cover
        manifest == root.manifest
        cover_items == { i \in 1..Len(manifest) : manifest[i].id = cover_img_id }
        cover_href == IF cover_items = {} THEN ""
                      ELSE IF is_image(manifest[FirstOf(cover_items)].media_type)
                      THEN manifest[FirstOf(cover_items)].href
                      ELSE ""
        spine == root.spine
        first_items == { i \in 1..Len(manifest) : manifest[i].id = spine[1] }
        opf_dir == dirname(opf_path)
        full == join_opf_dir(opf_dir, manifest[FirstOf(first_items)].href)
        page_id == "rm-cover-page"
        page_filename == "rm_cover.xhtml"
        page_zip_path == join_opf_dir(opf_dir, page_filename)
        new_item == Item(page_id, page_filename, "application/xhtml+xml")
    IN  IF fromstring_raises(opf_bytes) # ""
        THEN result(fromstring_raises(opf_bytes), FALSE, opf_bytes, << >>)
        ELSE IF cover_img_id = "" THEN unchanged
        ELSE IF cover_href = "" THEN unchanged
        ELSE IF spine = << >> THEN unchanged
        ELSE IF first_items # {} /\ read_raises(entries, full) = "BadZipFile"
        THEN result("BadZipFile", FALSE, opf_bytes, << >>)
        ELSE IF /\ first_items # {}
                /\ read_raises(entries, full) = ""
                /\ page_shows(read(entries, full), cover_href)
        THEN unchanged
        ELSE result("", TRUE,
                    Opf(root.cover, Append(manifest, new_item), <<page_id>> \o spine,
                        Append(root.guide, page_filename)),
                    <<ZipInfo(page_zip_path, Page(cover_href), "deflated", "", TRUE)>>)

(* a temporary file created before the archive is opened *)
temp_file_from_the_start(stage, tmp) == {tmp}

(* the temporary files that exist when _prepare_epub leaves at `stage`:    *)
(* NamedTemporaryFile(delete=False) runs after the archive was opened, the *)
(* package located and the cover injection attempted                       *)
temp_file_at(stage, tmp) == IF stage \in {"copy", "done"} THEN {tmp} ELSE {}

(* the copy loop: every member that is not named mimetype, its data read   *)
(* by name, the patched package document in place of the original          *)
copy_members(entries, opf_path, patched, patched_opf) ==
    LET others == SelectSeq(entries, LAMBDA item : item.filename # "mimetype")
    IN  [i \in 1..Len(others) |->
            ZipInfo(others[i].filename,
                    IF patched /\ others[i].filename = opf_path
                    THEN patched_opf ELSE read(entries, others[i].filename),
                    "deflated", "", TRUE)]

(* _prepare_epub(path, inject_cover) on the file at `path`: [raised, path, *)
(* owned, created, out]; owned is TRUE when the second result is the       *)
(* returned path and FALSE when it is None, `tmp` is the name              *)
(* NamedTemporaryFile picks, `out` the members written to it.              *)
_prepare_epub_members(path, file, inject_cover, tmp) ==
    LET entries == file.entries
        leave(exc, stage) == [raised |-> exc, path |-> path, owned |-> FALSE,
                              created |-> temp_file_at(stage, tmp), out |-> << >>]
        loc == _locate_opf(entries)
        opf_path == loc.opf_path
        attempt == opf_path # "" /\ inject_cover
        inj == _ensure_cover_page(entries, opf_path, read(entries, opf_path))
        inj_raised == IF ~attempt THEN ""
                      ELSE IF read_raises(entries, opf_path) # ""
                      THEN read_raises(entries, opf_path)
                      ELSE inj.raised
        patched == attempt /\ inj_raised = "" /\ inj.patched
        copy_fails == \E i \in 1..Len(entries) :
                          /\ entries[i].filename # "mimetype"
                          /\ ~getinfo(entries, entries[i].filename).crc_ok
    IN  IF Lower(path.ext) # ".epub" THEN leave("", "start")
        ELSE IF ~file.zip THEN leave("", "open")
        ELSE IF loc.raised = "BadZipFile" THEN leave("", "locate")
        ELSE IF loc.raised # "" THEN leave(loc.raised, "locate")
        ELSE IF inj_raised = "BadZipFile" THEN leave("", "inject")
        ELSE IF inj_raised \notin {"", "KeyError", "ParseError"} THEN leave(inj_raised, "inject")
        ELSE IF copy_fails THEN leave("", "copy")
        ELSE [raised |-> "", path |-> tmp, owned |-> TRUE,
              created |-> temp_file_at("done", tmp),
              out |-> <<mi>> \o copy_members(entries, opf_path, patched,
                                             IF patched THEN inj.opf ELSE Bytes(""))
                          \o (IF patched THEN inj.new_files ELSE << >>)]

CoverImage == Item("c", "cover.jpg", "image/jpeg")

FirstPage == Item("p1", "p1.xhtml", "application/xhtml+xml")

OtherPage == Item("rm-cover-page", "other.xhtml", "application/xhtml+xml")

(* package documents: one that gets a cover page, no cover meta, a cover   *)
(* id missing from the manifest, a cover item that is no image, an empty   *)
(* spine, a first idref missing from the manifest, a manifest that already *)
(* has an item with the id rm-cover-page, a guide, and documents that do   *)
(* not parse                                                               *)
OpfDocs ==
    { Opf("c", <<CoverImage, FirstPage>>, <<"p1">>, << >>),
      Opf("", <<CoverImage, FirstPage>>, <<"p1">>, << >>),
      Opf("zz", <<CoverImage, FirstPage>>, <<"p1">>, << >>),
      Opf("p1", <<CoverImage, FirstPage>>, <<"p1">>, << >>),
      Opf("c", <<CoverImage, FirstPage>>, << >>, << >>),
      Opf("c", <<CoverImage, FirstPage>>, <<"nx">>, << >>),
      Opf("c", <<CoverImage, OtherPage, FirstPage>>, <<"p1", "rm-cover-page">>, << >>),
      Opf("c", <<FirstPage, CoverImage>>, <<"p1">>, <<"p1.xhtml">>),
      Data("badxml", "", "", << >>, << >>, << >>),
      Data("badenc", "", "", << >>, << >>, << >>) }

(* META-INF/container.xml: absent, naming the package document, naming a   *)
(* member that does not exist, not parsable                                *)
Containers == {"none", "ok", "dangling", "badxml"}

(* the first page of the reading order: shows the cover image, shows no    *)
(* image, is not in the archive                                            *)
FirstPages == {"cover", "text", "absent"}

(* where the source has its mimetype member: first, second, first and      *)
(* last, nowhere, first but compressed and with an extra field             *)
MarkerLayouts == {"first", "middle", "twice", "none", "deflated"}

Member(filename, data) == ZipInfo(filename, data, "deflated", "", TRUE)

EpubMembers(layout, container, opf, page) ==
    LET body == (IF container = "none" THEN << >>
                 ELSE <<Member("META-INF/container.xml",
                               IF container = "ok"
                               THEN Data("container", "OEBPS/content.opf", "", << >>, << >>, << >>)
                               ELSE IF container = "dangling"
                               THEN Data("container", "OEBPS/gone.opf", "", << >>, << >>, << >>)
                               ELSE Data("badxml", "", "", << >>, << >>, << >>))>>)
                \o <<Member("OEBPS/content.opf", opf)>>
                \o (IF page = "absent" THEN << >>
                    ELSE <<Member("OEBPS/p1.xhtml",
                                  Page(IF page = "cover" THEN "cover.jpg" ELSE ""))>>)
                \o <<Member("OEBPS/other.xhtml", Page("")),
                     Member("OEBPS/cover.jpg", Bytes("jpeg"))>>
    IN  IF layout = "first" THEN <<mi>> \o body
        ELSE IF layout = "middle" THEN <<Head(body), mi>> \o Tail(body)
        ELSE IF layout = "twice" THEN <<mi>> \o body \o <<Member("mimetype", Bytes("text/plain"))>>
        ELSE IF layout = "none" THEN body
        ELSE <<ZipInfo("mimetype", Bytes("application/epub+zip"), "deflated", "ux", TRUE)>> \o body

Archive(entries) == [zip |-> TRUE, entries |-> entries]

(* a file that zipfile.ZipFile cannot open *)
NotAnArchive == [zip |-> FALSE, entries |-> << >>]

PlainOpf == Opf("c", <<CoverImage, FirstPage>>, <<"p1">>, << >>)

(* the files handed to _prepare_epub: the archives above under an .epub    *)
(* name; an archive with two members of one name; archives with a member   *)
(* that fails its CRC check; an archive whose container.xml declares an    *)
(* unsupported encoding; files that are no archives; other extensions      *)
RepackInputs ==
    { [path |-> File("b1", ".epub"), file |-> Archive(EpubMembers(l, c, o, p))] :
          l \in MarkerLayouts, c \in Containers, o \in OpfDocs, p \in FirstPages }
    \cup
    { [path |-> File("b1", ".epub"),
       file |-> Archive(<<Member("a.txt", Bytes("first"))>> \o EpubMembers("middle", "ok", PlainOpf, "text")
                            \o <<Member("a.txt", Bytes("second"))>>)],
      [path |-> File("b1", ".epub"),
       file |-> Archive(EpubMembers("first", "ok", PlainOpf, "text")
                            \o <<ZipInfo("fig.png", Bytes("png"), "deflated", "", FALSE)>>)],
      [path |-> File("b1", ".epub"),
       file |-> Archive(<<mi, ZipInfo("OEBPS/content.opf", PlainOpf, "deflated", "", FALSE)>>)],
      [path |-> File("b1", ".epub"),
       file |-> Archive(<<mi, Member("META-INF/container.xml", Data("badenc", "", "", << >>, << >>, << >>)),
                          Member("OEBPS/content.opf", PlainOpf)>>)],
      [path |-> File("b1", ".epub"),
       file |-> Archive(<<mi, Member("META-INF/container.xml", Data("xml", "", "", << >>, << >>, << >>)),
                          Member("extra.opf", PlainOpf), Member("p1.xhtml", Page(""))>>)],
      [path |-> File("b1", ".epub"), file |-> NotAnArchive],
      [path |-> File("b3", ".EPUB"), file |-> NotAnArchive],
      [path |-> File("b3", ".EPUB"), file |-> Archive(EpubMembers("none", "none", PlainOpf, "text"))],
      [path |-> File("b2", ".pdf"), file |-> NotAnArchive],
      [path |-> File("b4", ".zip"), file |-> Archive(EpubMembers("first", "ok", PlainOpf, "text"))] }

InitRepack ==
    /\ curDir = "" /\ httpLog = << >>
    /\ _device = None /\ _last_detection_check = 0 /\ now = 0 /\ reachable = TRUE
    /\ lastCall = NoCall /\ calls = 0
    /\ booklist = << >> /\ listing = DevEmpty /\ nextOid = 1 /\ progressLog = << >>
    /\ IdleUpload

(* one call _prepare_epub(path, inject_cover); `first` keeps what the call *)
(* before it was given and wrote, `after` is the file at `path` after the  *)
(* call                                                                    *)
Prepared(n, path, file, inject_cover, first) ==
    LET r == _prepare_epub_members(path, file, inject_cover, File(TmpStems[n], ".epub")) IN
    /\ lastCall' = [op |-> "_prepare_epub", n |-> n, path |-> path, file |-> file,
                    inject_cover |-> inject_cover, raised |-> r.raised,
                    result |-> r.path, owned |-> r.owned, created |-> r.created,
                    out |-> r.out,
                    after |-> IF path \in r.created THEN Archive(r.out) ELSE file,
                    first |-> IF n = 1
                              THEN [inject_cover |-> inject_cover, file |-> file, out |-> r.out]
                              ELSE first]
    /\ tempFiles' = tempFiles \cup r.created
    /\ calls' = n
    /\ UNCHANGED <<serverVars, hostVars, bookVars, progressLog, pc, files_original, inflight,
                   cfg, upload_items, pool, futures, folder_id, upIdx, unlinks, errorLog,
                   raised>>

PrepareEpub(input, inject_cover) ==
    /\ lastCall = NoCall
    /\ Prepared(1, input.path, input.file, inject_cover, [inject_cover |-> inject_cover, file |-> input.file, out |-> << >>])

(* _prepare_epub on the archive the first call returned *)
PrepareAgain(inject_cover) ==
    /\ lastCall.op = "_prepare_epub" /\ lastCall.n = 1 /\ lastCall.owned
    /\ Prepared(2, lastCall.result, Archive(lastCall.out), inject_cover, lastCall.first)

NextRepack ==
    \/ \E input \in RepackInputs, inject_cover \in BOOLEAN : PrepareEpub(input, inject_cover)
    \/ \E inject_cover \in BOOLEAN : PrepareAgain(inject_cover)

SpecRepack == InitRepack /\ [][NextRepack]_vars

AfterPrepare == lastCall.op = "_prepare_epub"

(* the call wrote a new archive and returned it *)
Repackaged == AfterPrepare /\ lastCall.owned

(* the members of the source that are not named mimetype, in source order *)
OtherMembers == SelectSeq(lastCall.file.entries, LAMBDA item : item.filename # "mimetype")

(* the call added a cover page *)
CoverPageAdded ==
    /\ Repackaged
    /\ Len(lastCall.out) = Len(OtherMembers) + 2
    /\ Last(lastCall.out).filename \in {"OEBPS/rm_cover.xhtml", "rm_cover.xhtml"}

PackagePath == _locate_opf(lastCall.file.entries).opf_path

(* C21: when _prepare_epub repackages an archive, the first member of the  *)
(* output is mimetype, stored, with an empty extra field and the bytes     *)
(* application/epub+zip; the output has no other member of that name,      *)
(* wherever and however often the source has one; and every other member   *)
(* of the source follows once, in source order, with its own content (the  *)
(* package document with its patched content when a cover page was added), *)
(* before the generated cover page.                                        *)
C21_MarkerFirstThenSourceOrder ==
    Repackaged =>
        /\ lastCall.out[1] = mi
        /\ Named(lastCall.out, "mimetype") = {1}
        /\ Len(lastCall.out) \in {Len(OtherMembers) + 1, Len(OtherMembers) + 2}
        /\ \A i \in 1..Len(OtherMembers) :
              /\ lastCall.out[i + 1].filename = OtherMembers[i].filename
              /\ (lastCall.out[i + 1].data = OtherMembers[i].data
                    \/ (CoverPageAdded /\ OtherMembers[i].filename = PackagePath))
        /\ Len(lastCall.out) = Len(OtherMembers) + 2 => CoverPageAdded

(* C22: repackaging with cover injection the output of a repackaging with  *)
(* cover injection yields the members of the first output again: no second *)
(* cover page file, no further manifest item, spine or guide reference.    *)
C22_CoverInjectionIdempotent ==
    (Repackaged /\ lastCall.n = 2 /\ lastCall.inject_cover /\ lastCall.first.inject_cover) =>
        /\ lastCall.out = lastCall.first.out
        /\ Len(lastCall.out) = Len(lastCall.file.entries)

(* C23: _prepare_epub given a path that does not end in .epub, or a file   *)
(* that cannot be opened as an archive, returns the path it was given and  *)
(* None as the path to clean up, leaves no temporary file behind and       *)
(* leaves the file as it was.                                              *)
C23_PassThroughUntouched ==
    (AfterPrepare /\ (Lower(lastCall.path.ext) # ".epub" \/ ~lastCall.file.zip)) =>
        /\ lastCall.raised = ""
        /\ lastCall.result = lastCall.path /\ ~lastCall.owned
        /\ lastCall.created = {} /\ tempFiles = {}
        /\ lastCall.after = lastCall.file

(* an .epub file that is no archive was passed through *)
C23_Witness ==
    /\ AfterPrepare /\ lastCall.path = File("b1", ".epub") /\ ~lastCall.file.zip
    /\ lastCall.result = lastCall.path /\ ~lastCall.owned

(* the cover injection was attempted and failed: the package document did  *)
(* not parse, or the member the container names does not exist; every      *)
(* member of the archive reads                                             *)
InjectionFailed ==
    /\ AfterPrepare /\ lastCall.inject_cover /\ lastCall.file.zip
    /\ Lower(lastCall.path.ext) = ".epub"
    /\ \A i \in 1..Len(lastCall.file.entries) : lastCall.file.entries[i].crc_ok
    /\ _locate_opf(lastCall.file.entries).raised = ""
    /\ PackagePath # ""
    /\ \/ read_raises(lastCall.file.entries, PackagePath) = "KeyError"
       \/ /\ read_raises(lastCall.file.entries, PackagePath) = ""
          /\ fromstring_raises(read(lastCall.file.entries, PackagePath)) # ""

(* C28: when the cover injection fails to parse the package document or to *)
(* look up a member, _prepare_epub does not raise and returns a new        *)
(* archive with the mimetype member first, the package document as it was  *)
(* in the source and no cover page.                                        *)
C28_FailedInjectionSwallowed ==
    InjectionFailed =>
        /\ lastCall.raised = ""
        /\ lastCall.owned
        /\ lastCall.out[1] = mi
        /\ Len(lastCall.out) = Len(OtherMembers) + 1
        /\ \A i \in 1..Len(OtherMembers) : lastCall.out[i + 1].data = OtherMembers[i].data

-----------------------------------------------------------------------------
(* The conversion specification: one call of _convert_epub_to_pdf and the  *)
(* ebook-convert process it starts, on a clock of seconds.                 *)

timeout_secs == 300

(* the clock advances by ClockStep seconds up to MaxClock; the process     *)
(* writes at most MaxLines lines to stderr                                 *)
ClockStep == 100

MaxClock == 500

MaxLines == 2

(* a line of stderr: with a percentage or without *)
StderrLines == {"33% Converting", "Rendering"}

InitConvert ==
    /\ curDir = "" /\ httpLog = << >>
    /\ _device = None /\ _last_detection_check = 0 /\ now \in {0, ClockStep} /\ reachable = TRUE
    /\ lastCall = NoCall /\ calls = 0
    /\ booklist = << >> /\ listing = DevEmpty /\ nextOid = 1 /\ progressLog = << >>
    /\ IdleUpload

convertFrame == <<serverVars, hostVars, bookVars, calls, progressLog, files_original, inflight, cfg, upload_items, pool, futures, folder_id, upIdx, unlinks, errorLog>>

(* mkstemp, Popen, deadline = time.monotonic() + timeout_secs *)
ConvertBegin(epub_path) ==
    /\ pc = "idle" /\ lastCall = NoCall
    /\ now + timeout_secs < MaxClock
    /\ lastCall' = [op |-> "_convert_epub_to_pdf", epub_path |-> epub_path,
                    out_path |-> TmpPdf(1), proc |-> "running", returncode |-> 0,
                    stderr |-> << >>, written |-> 0, deadline |-> now + timeout_secs,
                    began |-> now, ended |-> now]
    /\ tempFiles' = tempFiles \cup {TmpPdf(1)}
    /\ pc' = "reading"
    /\ UNCHANGED <<convertFrame, raised>>

(* the process writes a line to its stderr *)
ProcWrites(line) ==
    /\ lastCall.op = "_convert_epub_to_pdf" /\ lastCall.proc = "running"
    /\ lastCall.written < MaxLines
    /\ lastCall' = [lastCall EXCEPT !.stderr = Append(@, line), !.written = @ + 1]
    /\ UNCHANGED <<convertFrame, pc, tempFiles, raised>>

(* the process exits, which closes its stderr *)
ProcExits(rc) ==
    /\ lastCall.op = "_convert_epub_to_pdf" /\ lastCall.proc = "running"
    /\ lastCall' = [lastCall EXCEPT !.proc = "exited", !.returncode = rc]
    /\ UNCHANGED <<convertFrame, pc, tempFiles, raised>>

(* `for line in proc.stderr` yields a line: past the deadline the process  *)
(* is killed and TimeoutError raised (the handler unlinks out_path),       *)
(* otherwise the line is searched for a percentage                         *)
ReadLine ==
    /\ pc = "reading" /\ lastCall.stderr # << >>
    /\ IF now > lastCall.deadline
       THEN /\ lastCall' = [lastCall EXCEPT !.stderr = Tail(@), !.proc = "killed",
                                            !.ended = now]
            /\ raised' = ConvTimeoutError
            /\ tempFiles' = tempFiles \ {lastCall.out_path}
            /\ pc' = "raised"
       ELSE /\ lastCall' = [lastCall EXCEPT !.stderr = Tail(@)]
            /\ UNCHANGED <<raised, tempFiles, pc>>
    /\ UNCHANGED convertFrame

(* the iteration ends at end of file, proc.wait() returns, the return code *)
(* decides between returning out_path and raising RuntimeError             *)
ReadEOF ==
    /\ pc = "reading" /\ lastCall.stderr = << >> /\ lastCall.proc = "exited"
    /\ lastCall' = [lastCall EXCEPT !.ended = now]
    /\ IF lastCall.returncode # 0
       THEN /\ raised' = ConvRuntimeError(File("", ""))
            /\ tempFiles' = tempFiles \ {lastCall.out_path}
            /\ pc' = "raised"
       ELSE /\ pc' = "returned"
            /\ UNCHANGED <<raised, tempFiles>>
    /\ UNCHANGED convertFrame

(* time passes *)
ClockTick ==
    /\ now + ClockStep <= MaxClock
    /\ now' = now + ClockStep
    /\ UNCHANGED <<serverVars, _device, _last_detection_check, reachable, lastCall, calls,
                   bookVars, progressLog, uploadVars>>

NextConvert ==
    \/ \E epub_path \in {File("b1", ".epub"), File("b2", ".epub")} : ConvertBegin(epub_path)
    \/ \E line \in StderrLines : ProcWrites(line)
    \/ \E rc \in {0, 1} : ProcExits(rc)
    \/ ReadLine
    \/ ReadEOF
    \/ ClockTick

SpecConvert == InitConvert /\ [][NextConvert]_vars

(* the plugin's thread runs and time passes; the converter process owes    *)
(* nothing                                                                 *)
FairConvert ==
    /\ SpecConvert
    /\ WF_vars(ReadLine) /\ WF_vars(ReadEOF) /\ WF_vars(ClockTick)

ConvertOver == pc \in {"returned", "raised"}

(* C25: a call of _convert_epub_to_pdf whose wall-clock budget is exceeded *)
(* eventually returns or raises, also when the converter process neither   *)
(* exits nor writes anything.                                              *)
C25_ConversionEnds ==
    (pc = "reading" /\ now > lastCall.deadline) ~> ConvertOver

-----------------------------------------------------------------------------
(* Claims on the device session, under SpecDevice.                         *)

SessionState ==
    /\ lastCall.op = "eject" => _device = None
    /\ lastCall.op = "is_usb_connected" => lastCall.connected = (_device # None)
    /\ (lastCall.op = "detect_managed_devices" /\ lastCall.result # None) =>
          /\ lastCall.result = _device
          /\ get_device_uid(_device) = lastCall.result.session_id

SessionStep ==
    /\ (_device = None /\ _device' # None) =>
          /\ lastCall'.op = "detect_managed_devices" /\ lastCall'.polled
          /\ Last(httpLog').ok
    /\ (_device # None /\ _device' # _device) => (lastCall'.op = "eject" /\ _device' = None)
    /\ (calls' # calls /\ lastCall'.op = "detect_managed_devices"
          /\ lastCall'.result # None /\ _device # None) => lastCall'.result = _device

(* C36: _device is set only by a detect_managed_devices call whose poll    *)
(* found the tablet reachable and cleared only by eject; while it is set,  *)
(* every detect_managed_devices call that reports a device returns that    *)
(* same DeviceInfo, whose session id get_device_uid gives; after eject     *)
(* is_usb_connected reports no connection as long as _device is not set    *)
(* again.                                                                  *)
C36_SessionStable == []SessionState /\ [][SessionStep]_vars

(* detected, ejected, then asked: not connected *)
C36_Witness ==
    /\ lastCall.op = "is_usb_connected" /\ ~lastCall.connected
    /\ \E n \in 1..Len(httpLog) : httpLog[n].ok

(* detected twice, with a poll each time: the same session *)
C36_WitnessSame ==
    /\ lastCall.op = "detect_managed_devices" /\ lastCall.polled
    /\ lastCall.result # None /\ Len(httpLog) >= 2 /\ httpLog[1].ok

-----------------------------------------------------------------------------
(* Claims on a failed and on a repeated scan, under SpecSync.              *)

(* C34: when the crawl of sync_booklists fails (the tablet does not        *)
(* answer, a listing entry has no ID, the listing of a nested folder       *)
(* fails), sync_booklists still completes: no Book of the partly crawled   *)
(* tree is used, and the list returned is the local list with exactly the  *)
(* entries it had.                                                         *)
C34_FailedScanKeepsLocal ==
    (lastCall.op = "sync_booklists" /\ ~lastCall.scan_ok) =>
        /\ lastCall.scanned = << >>
        /\ Range(lastCall.on_device) \subseteq Range(lastCall.before)
        /\ lastCall.result = lastCall.before
        /\ booklist = lastCall.before
        /\ Last(progressLog) = 6000

(* a scan that failed in a nested folder, on an entry without ID, with a   *)
(* local list of two books                                                 *)
C34_Witness ==
    /\ lastCall.op = "sync_booklists" /\ ~lastCall.scan_ok
    /\ listing = DevMalformed /\ Len(lastCall.reqs) = 2
    /\ \A n \in 1..Len(lastCall.reqs) : lastCall.reqs[n].ok
    /\ Len(lastCall.before) = 2 /\ booklist = lastCall.before

(* two scans were made and both succeeded *)
ScannedTwice ==
    /\ lastCall.op = "sync_booklists" /\ calls = 2 /\ lastCall.scan_ok
    /\ \A n \in 1..Len(httpLog) : httpLog[n].ok

(* C35: a second sync_booklists on the list a first one returned, with the *)
(* tablet listing the same entries, appends nothing: the list returned is  *)
(* the list it was given.                                                  *)
C35_SecondSyncAppendsNothing ==
    ScannedTwice => (lastCall.result = lastCall.before /\ booklist = lastCall.before)

-----------------------------------------------------------------------------
(* Claims on the crawl's progress and on the tree, under SpecCrawl.        *)

(* the number of entries of a tree, subtrees included *)
RECURSIVE TreeSize(_)
TreeSize(tree) ==
    IF tree = << >> THEN 0
    ELSE 1 + TreeSize(Head(tree).subtree) + TreeSize(Tail(tree))

(* request k asks for the root of the crawl or for a folder-typed entry of *)
(* a listing an earlier request returned                                   *)
AsksForFolder(k) ==
    \/ k = 1 /\ lastCall.reqs[k].id = lastCall.root_id
    \/ \E j \in 1..(k - 1) :
          /\ lastCall.reqs[j].ok
          /\ \E i \in 1..Len(listing[lastCall.reqs[j].id]) :
                /\ listing[lastCall.reqs[j].id][i].ID = lastCall.reqs[k].id
                /\ listing[lastCall.reqs[j].id][i].Type = COLLECTION

(* the entries the first k requests listed *)
RECURSIVE ListedBy(_)
ListedBy(k) == IF k = 0 THEN 0 ELSE ListedBy(k - 1) + Len(listing[lastCall.reqs[k].id])

RECURSIVE UniqueIds(_)
UniqueIds(tree) ==
    /\ \A i \in 1..Len(tree), j \in 1..Len(tree) :
          tree[i].entry.entry_id = tree[j].entry.entry_id => i = j
    /\ \A i \in 1..Len(tree) : UniqueIds(tree[i].subtree)

(* C32: in the tree build_file_tree returns, whatever the tablet listed,   *)
(* no two nodes of one level have the same entry id.                       *)
C32_LevelIdsUnique ==
    (lastCall.op = "build_file_tree" /\ lastCall.ok) => UniqueIds(lastCall.tree)

-----------------------------------------------------------------------------
(* Claim on the server's directory during the uploads, under SpecUpload.   *)

(* C33: after the pre-upload navigation of a batch, upload_books and       *)
(* upload_file issue nothing but upload POSTs, and every upload POST of a  *)
(* batch whose target folder was resolved is issued while the server's     *)
(* current directory is that folder.                                       *)
C33_UploadsLandInTargetFolder ==
    /\ \A m \in 1..Len(httpLog), n \in 1..Len(httpLog) :
          (m < n /\ httpLog[m].by = "upload_books") => httpLog[n].op = "POST"
    /\ folder_id # "" => \A n \in 1..Len(Posts) : Posts[n].dir = folder_id

====
